---------------------------- MODULE Spec2Model ----------------------------
(***************************************************************************)
(* A model of the business tools of odoo_mcp: the sales, purchase,         *)
(* inventory and accounting operations registered on the MCP server.       *)
(*                                                                         *)
(* Every tool is request scoped: it reads its typed parameters, issues a   *)
(* sequence of calls on the Odoo client (search_read / execute_method) and *)
(* returns {"success": ..., ...}.  One action models one whole invocation; *)
(* the store is an oracle that may raise at any call and that answers      *)
(* reads with records drawn from small sets.                               *)
(*                                                                         *)
(* Encodings                                                               *)
(*   Optional[T]     [some |-> BOOLEAN, v |-> value]; None has some=FALSE  *)
(*   date string     [kind, y, m, d]: kind "ymd" is text of the shape      *)
(*                   Y-M-D with those numeric fields, "empty" is "", and   *)
(*                   "junk" is any other text                              *)
(*   float amounts   integers in thousandths (journal lines) or whole      *)
(*                   units (order totals, balances)                        *)
(***************************************************************************)
EXTENDS Integers, Sequences, FiniteSets, TLC

VARIABLES
    op,        \* name of the tool whose invocation has just run, or "idle"
    args,      \* the parameters it was called with
    store,     \* how the store behaved: the calls that raise, the records read
    calls,     \* the store calls it issued, in order
    outcome    \* what it returned (or the exception that escaped it)

vars == <<op, args, store, calls, outcome>>

---------------------------------------------------------------------------
(* Bounds of the model                                                     *)

MaxLines == 2        \* journal entry lines per entry
MaxRatios == 2       \* requested ratio names per request
MaxRecords == 2      \* records a read returns
MaxIds == 2          \* ids in a list-of-ids parameter
MaxGroups == 12      \* distinct group keys in the records of a large store

---------------------------------------------------------------------------
(* Optional values and Python truthiness                                   *)

None == [some |-> FALSE, v |-> 0]
NoneStr == [some |-> FALSE, v |-> ""]
Some(x) == [some |-> TRUE, v |-> x]

\* `if x:` on Optional[int]: None and 0 are both falsy.
TruthyInt(o) == o.some /\ o.v # 0

\* `if x:` on Optional[str]: None and "" are both falsy.
TruthyStr(o) == o.some /\ o.v # ""

\* `if x:` on Optional[List[int]]: None and [] are both falsy.
TruthyList(o) == o.some /\ Len(o.v) > 0

---------------------------------------------------------------------------
(* Date strings, datetime.strptime(s, "%Y-%m-%d"), timedelta arithmetic    *)
(* and strftime("%Y-%m-%d").  The calendar is the proleptic Gregorian one  *)
(* of Python's datetime; a datetime at midnight is its day ordinal.        *)

Ymd(y, m, d) == [kind |-> "ymd", y |-> y, m |-> m, d |-> d]
EmptyText == [kind |-> "empty", y |-> 0, m |-> 0, d |-> 0]
JunkText == [kind |-> "junk", y |-> 0, m |-> 0, d |-> 0]
NoneDate == [some |-> FALSE, v |-> EmptyText]

\* `if x:` on Optional[str] holding a date string.
TruthyDate(o) == o.some /\ o.v.kind # "empty"

IsLeap(y) == (y % 4 = 0 /\ y % 100 # 0) \/ y % 400 = 0

DaysInMonth(y, m) ==
    IF m = 2 THEN (IF IsLeap(y) THEN 29 ELSE 28)
    ELSE IF m \in {4, 6, 9, 11} THEN 30 ELSE 31

\* strptime succeeds: the text has the shape and names a real day.
ParseOK(s) ==
    /\ s.kind = "ymd"
    /\ s.y >= 1 /\ s.y <= 9999
    /\ s.m >= 1 /\ s.m <= 12
    /\ s.d >= 1 /\ s.d <= DaysInMonth(s.y, s.m)

DaysBeforeYear(y) ==
    LET p == y - 1 IN p * 365 + (p \div 4) - (p \div 100) + (p \div 400)

RECURSIVE DaysBeforeMonth(_, _)
DaysBeforeMonth(y, m) ==
    IF m <= 1 THEN 0 ELSE DaysBeforeMonth(y, m - 1) + DaysInMonth(y, m - 1)

\* The parsed datetime, as a day ordinal (date.toordinal).
ToOrdinal(s) == DaysBeforeYear(s.y) + DaysBeforeMonth(s.y, s.m) + s.d

\* date.fromordinal followed by strftime("%Y-%m-%d"): the text of day n.
FromOrdinal(n) ==
    LET n0 == n - 1
        n400 == n0 \div 146097
        r400 == n0 % 146097
        n100 == r400 \div 36524
        r100 == r400 % 36524
        n4 == r100 \div 1461
        r4 == r100 % 1461
        n1 == r4 \div 365
        r1 == r4 % 365
        year == n400 * 400 + 1 + n100 * 100 + n4 * 4 + n1
    IN  IF n1 = 4 \/ n100 = 4
        THEN Ymd(year - 1, 12, 31)
        ELSE LET leap == n1 = 3 /\ (n4 # 24 \/ n100 = 3)
                 guess == (r1 + 50) \div 32
                 before(mm) == DaysBeforeMonth(IF leap THEN 4 ELSE 1, mm)
                 month == IF before(guess) > r1 THEN guess - 1 ELSE guess
             IN  Ymd(year, month, r1 - before(month) + 1)

---------------------------------------------------------------------------
(* Floats.  A journal amount is a float given as a decimal with three      *)
(* places; k stands for the double nearest to k/1000.  round(x, 2) rounds  *)
(* the exact binary value of x correctly, so a decimal tie k = ...5 goes   *)
(* up or down according to whether the double lies above or below k/1000.  *)

\* Number of binary digits of n (int.bit_length).
RECURSIVE BitLength(_)
BitLength(n) == IF n = 0 THEN 0 ELSE 1 + BitLength(n \div 2)

\* Sign of double(k/1000) - k/1000: binary long division to the 53
\* significant bits of a double, then round-to-nearest-even on the rest.
RECURSIVE DoubleError(_, _, _)
DoubleError(r, sig, last) ==
    IF r = 0 THEN 0
    ELSE IF sig = 53
    THEN IF 2 * r < 1000 THEN -1
         ELSE IF 2 * r > 1000 THEN 1
         ELSE IF last = 0 THEN -1 ELSE 1
    ELSE LET bit == IF 2 * r >= 1000 THEN 1 ELSE 0
         IN  DoubleError(2 * r - 1000 * bit,
                         IF sig > 0 \/ bit = 1 THEN sig + 1 ELSE 0,
                         bit)

CmpDouble(k) == DoubleError(k % 1000, BitLength(k \div 1000), (k \div 1000) % 2)

\* Decimal rounding of k/1000 to hundredths, ties away from zero.
Round2HalfUp(k) == (k + 5) \div 10

\* Truncation of k/1000 to hundredths.
Round2Floor(k) == k \div 10

\* round(x, 2) for the double x nearest to k/1000 (k >= 0), in hundredths.
Round2(k) ==
    LET h == k \div 10
        d == k % 10
    IN  IF d < 5 THEN h
        ELSE IF d > 5 THEN h + 1
        ELSE IF CmpDouble(k) < 0 THEN h
        ELSE IF CmpDouble(k) > 0 THEN h + 1
        ELSE IF h % 2 = 0 THEN h ELSE h + 1

---------------------------------------------------------------------------
(* Float division and multiplication.  The balances, prices, quantities    *)
(* and values the store returns are floats holding whole numbers, so their *)
(* sums, products and halves are exact and are kept as integers; only `/`  *)
(* and a product with a quotient round.  A non-zero double is kept as its  *)
(* sign, its 53 significant bits (most significant first) and the exponent *)
(* of the leading bit; every operation rounds to nearest, ties to even.    *)

FloatZero == [neg |-> FALSE, bits |-> <<>>, exp |-> 0]

\* What a division by zero leaves in place of a value: ZeroDivisionError.
ZeroDivisionError == [neg |-> FALSE, bits |-> <<>>, exp |-> 1]

\* Bits of the natural n, most significant first; 0 has none.
RECURSIVE NatBits(_)
NatBits(n) == IF n = 0 THEN <<>> ELSE Append(NatBits(n \div 2), n % 2)

\* a >= b for naturals of one length, compared from digit i on: the first
\* digit in which they differ decides.
LexGeq(a, b, i) ==
    LET differ == {j \in i..Len(a) : a[j] # b[j]}
    IN  \/ differ = {}
        \/ LET first == CHOOSE j \in differ : \A m \in differ : j <= m
            IN  a[first] > b[first]

\* bits * k for a small natural k, bit i downwards to bit stop + 1 with a
\* carry: the product's low bits so far and the carry into bit stop.
RECURSIVE TimesFrom(_, _, _, _, _, _)
TimesFrom(bits, k, i, stop, carry, acc) ==
    IF i = stop THEN [carry |-> carry, acc |-> acc]
    ELSE LET t == bits[i] * k + carry
         IN  TimesFrom(bits, k, i - 1, stop, t \div 2, <<t % 2>> \o acc)

\* Index of the last 0 among the first i bits, 0 when they are all 1.
LastZero(bits, i) ==
    LET zeros == {j \in 1..i : bits[j] = 0}
    IN  IF zeros = {} THEN 0 ELSE CHOOSE j \in zeros : \A m \in zeros : m <= j

\* Round to 53 bits the value whose leading bits are `bits` (leading bit 1,
\* of exponent exp), followed by something non-zero when sticky.
RoundNearestEven(neg, bits, sticky, exp) ==
    LET n == Len(bits)
    IN  IF n <= 53
        THEN [neg |-> neg, bits |-> bits \o [i \in 1..(53 - n) |-> 0], exp |-> exp]
        ELSE LET keep == SubSeq(bits, 1, 53)
                 rest == sticky \/ \E i \in 55..n : bits[i] = 1
                 up == bits[54] = 1 /\ (rest \/ keep[53] = 1)
                 z == LastZero(keep, 53)
             IN  IF ~up THEN [neg |-> neg, bits |-> keep, exp |-> exp]
                 ELSE IF z = 0
                 THEN [neg |-> neg, bits |-> <<1>> \o [i \in 1..52 |-> 0],
                       exp |-> exp + 1]
                 ELSE [neg |-> neg,
                       bits |-> SubSeq(keep, 1, z - 1) \o <<1>>
                                  \o [i \in 1..(53 - z) |-> 0],
                       exp |-> exp]

\* float(n) for an integer n below 2^31.
FloatOf(n) ==
    IF n = 0 THEN FloatZero
    ELSE LET bits == NatBits(IF n < 0 THEN -n ELSE n)
         IN  RoundNearestEven(n < 0, bits, FALSE, Len(bits) - 1)

\* Long division of naturals below 2^30: more quotient bits after `bits`
\* until there are n of them; r is the remainder so far.
RECURSIVE QuotientBits(_, _, _, _)
QuotientBits(r, b, bits, n) ==
    IF Len(bits) >= n THEN [bits |-> bits, rem |-> r]
    ELSE LET bit == IF 2 * r >= b THEN 1 ELSE 0
         IN  QuotientBits(2 * r - bit * b, b, Append(bits, bit), n)

\* Number of doublings of r (0 < r < b) until it reaches b.
RECURSIVE LeadShift(_, _)
LeadShift(r, b) == IF 2 * r >= b THEN 1 ELSE 1 + LeadShift(2 * r, b)

RECURSIVE Pow2(_)
Pow2(k) == IF k = 0 THEN 1 ELSE 2 * Pow2(k - 1)

\* a / b for positive naturals.
DivNat(neg, a, b) ==
    LET ip == a \div b
        lead == NatBits(ip)
        shift == IF ip > 0 THEN 0 ELSE LeadShift(a, b)
        \* for a < b the quotient's leading bit is the shift-th after the point
        \* the 54 bits are produced a run at a time
        More(part, n) == QuotientBits(part.rem, b, part.bits, n)
        start == IF ip > 0
                 THEN [bits |-> lead, rem |-> a % b]
                 ELSE [bits |-> <<1>>, rem |-> a * Pow2(shift) - b]
        q == More(More(More(More(start, 14), 27), 40), 54)
    IN  RoundNearestEven(neg, q.bits, q.rem # 0,
                         IF ip > 0 THEN Len(lead) - 1 ELSE -shift)

\* a / b on floats holding the integers a and b.
TrueDiv(a, b) ==
    IF b = 0 THEN ZeroDivisionError
    ELSE IF a = 0 THEN FloatZero
    ELSE DivNat((a < 0) # (b < 0), IF a < 0 THEN -a ELSE a, IF b < 0 THEN -b ELSE b)

\* x * k for a float x and a float holding the positive integer k.
MulInt(x, k) ==
    IF Len(x.bits) = 0 THEN x
    ELSE LET \* the 53 bits are multiplied a run at a time
             More(part, stop) ==
                 TimesFrom(x.bits, k, 53 - Len(part.acc), stop, part.carry, part.acc)
             low == More(More(More(More([carry |-> 0, acc |-> <<>>], 40), 27), 14), 0)
             product == NatBits(low.carry) \o low.acc
         IN  RoundNearestEven(x.neg, product, FALSE, x.exp + Len(product) - 53)

\* The natural whose bits are `bits`.
RECURSIVE BitsValue(_)
BitsValue(bits) ==
    IF Len(bits) = 0 THEN 0
    ELSE 2 * BitsValue(SubSeq(bits, 1, Len(bits) - 1)) + bits[Len(bits)]

\* Naturals of up to 65 bits are held as five digits of 13 bits, most
\* significant first.
LimbBase == Pow2(13)

Limbs(bits) ==
    LET padded == [i \in 1..(65 - Len(bits)) |-> 0] \o bits
        Limb(j) == BitsValue(SubSeq(padded, 13 * j - 12, 13 * j))
    IN  <<Limb(1), Limb(2), Limb(3), Limb(4), Limb(5)>>

\* 2 * r, digit i downwards with a carry.
RECURSIVE LimbsDouble(_, _, _, _)
LimbsDouble(r, i, carry, acc) ==
    IF i = 0 THEN acc
    ELSE LET t == 2 * r[i] + carry
         IN  LimbsDouble(r, i - 1, t \div LimbBase, <<t % LimbBase>> \o acc)

\* a - b (a >= b), digit i downwards with a borrow.
RECURSIVE LimbsSub(_, _, _, _, _)
LimbsSub(a, b, i, borrow, acc) ==
    IF i = 0 THEN acc
    ELSE LET t == a[i] - b[i] - borrow
         IN  LimbsSub(a, b, i - 1, IF t < 0 THEN 1 ELSE 0,
                      <<IF t < 0 THEN t + LimbBase ELSE t>> \o acc)

\* Long division by the 53-bit natural y: more quotient bits after `bits`
\* until there are n of them; r < y is the remainder so far.
RECURSIVE BigQuotientBits(_, _, _, _)
BigQuotientBits(r, y, bits, n) ==
    IF Len(bits) >= n THEN [bits |-> bits, rem |-> r]
    ELSE LET r2 == LimbsDouble(r, 5, 0, <<>>)
             bit == IF LexGeq(r2, y, 1) THEN 1 ELSE 0
         IN  BigQuotientBits(IF bit = 1 THEN LimbsSub(r2, y, 5, 0, <<>>) ELSE r2, y,
                             Append(bits, bit), n)

\* a / x for a float holding the positive integer a (below 2^31) and a
\* positive float x: a / (Y * 2^(x.exp - 52)) with Y the 53 bits of x.  The
\* leading quotient bit of a / Y is the k-th after the point, where
\* k = 53 - Len(a) when a's bits are >= the leading bits of Y, else one more.
TrueDivFloat(a, x) ==
    LET r == NatBits(a)
        y == Limbs(x.bits)
        aligned == Limbs(r \o [i \in 1..(53 - Len(r)) |-> 0])
        k == IF LexGeq(aligned, y, 1) THEN 53 - Len(r) ELSE 54 - Len(r)
        first == LimbsSub(Limbs(r \o [i \in 1..k |-> 0]), y, 5, 0, <<>>)
        \* the 54 bits are produced a run at a time
        More(part, n) == BigQuotientBits(part.rem, y, part.bits, n)
        q == More(More(More(More([bits |-> <<1>>, rem |-> first], 14), 27), 40), 54)
    IN  RoundNearestEven(x.neg, q.bits, \E i \in 1..5 : q.rem[i] # 0,
                         52 - x.exp - k)

\* x > 0 and x == 0 on a float.
FloatPositive(x) == x # FloatZero /\ ~x.neg

\* The order of floats: x >= y.
FloatGeq(x, y) ==
    IF x = y THEN TRUE
    ELSE IF x = FloatZero THEN y.neg
    ELSE IF y = FloatZero THEN ~x.neg
    ELSE IF x.neg # y.neg THEN y.neg
    ELSE LET bigger == IF x.exp # y.exp THEN x.exp > y.exp
                       ELSE LexGeq(x.bits, y.bits, 1)
         IN  IF x.neg THEN ~bigger ELSE bigger

---------------------------------------------------------------------------
(* Store calls and tool results                                            *)

\* One call on the Odoo client.  ok is FALSE when the call raised.
Call(model, method, domain, vals, ok) ==
    [model |-> model, method |-> method, domain |-> domain, vals |-> vals, ok |-> ok]

NoVals == <<>>

Success(payload) == [kind |-> "success", error |-> "", result |-> payload]
Failure(msg) == [kind |-> "failure", error |-> msg, result |-> <<>>]
\* An exception on its way out of the code that raised it.
Raised(msg) == [kind |-> "raised", error |-> msg, result |-> <<>>]

\* The run of a piece of code: the store calls it made and how it ended.
Run(cs, out) == [calls |-> cs, outcome |-> out]

\* A body with no handler around it: the exception leaves the tool.
Reraise(r) == r

\* try: ... except Exception as e: return {"success": False, "error": str(e)}
TryExcept(r) ==
    IF r.outcome.kind = "raised"
    THEN Run(r.calls, Failure(r.outcome.error))
    ELSE r

\* A lookup that is never taken for empty.
NeverEmpty(records) == FALSE

\* `if not products:` on the list a search_read returned.
NoRecords(records) == Len(records) = 0

\* A domain predicate (field, operator, value).
Pred(field, operator, value) == <<field, operator, value>>

Min(S) == CHOOSE x \in S : \A y \in S : x <= y

\* A straight run of store calls against a store that raises at the calls
\* whose index is in fails: the calls up to and including the first one
\* that raises are issued, and its exception propagates.  When none raises
\* the run falls through (outcome kind "none").
Issue(planned, fails) ==
    LET bad == {i \in 1..Len(planned) : i \in fails}
    IN  IF bad = {}
        THEN Run(planned, [kind |-> "none", error |-> "", result |-> <<>>])
        ELSE LET i == Min(bad)
             IN  Run([j \in 1..i |-> IF j = i THEN [planned[j] EXCEPT !.ok = FALSE]
                                              ELSE planned[j]],
                     Raised("store error"))

\* The store raising at no call, or at exactly one of the first n calls.
OneFailure(n) == {{}} \cup {{i} : i \in 1..n}


---------------------------------------------------------------------------
(* Inputs shared by the tools                                              *)

\* Date texts: well formed, a day that does not exist, a month that does
\* not exist, text of another shape.
GoodDates == {Ymd(2024, 2, 1), Ymd(2024, 2, 29)}
BadDates == {Ymd(2023, 2, 29), Ymd(2024, 13, 1), JunkText}

\* Optional[str] date fields: None, "", malformed and well-formed text.
OptDates == {NoneDate, Some(EmptyText)} \cup {Some(s) : s \in BadDates \cup GoodDates}

\* Optional[int] id fields: None, the id 0 and a real id.
OptIds == {None, Some(0), Some(7)}

\* Optional[str] state fields: None, "" and a state name.
OptStates == {NoneStr, Some(""), Some("posted")}

\* Sequences over S of length lo..hi.
SeqsOf(S, lo, hi) == UNION {[1..n -> S] : n \in lo..hi}

RECURSIVE SumSeq(_)
SumSeq(s) == IF Len(s) = 0 THEN 0 ELSE Head(s) + SumSeq(Tail(s))

\* The optional date field d of a filter fails validation: it is truthy
\* and strptime raises ValueError.
DateRejected(d) == TruthyDate(d) /\ ~ParseOK(d.v)

---------------------------------------------------------------------------
(* tools_sales.search_sales_orders, tools_purchase.search_purchase_orders  *)

OrderFilters ==
    {[partner_id |-> p, date_from |-> f, date_to |-> t, state |-> s,
      limit |-> 20, offset |-> 0] :
        p \in OptIds, f \in OptDates, t \in OptDates, s \in OptStates}

\* What the store answers to a search: the records of search_read and the
\* number search_count reports.
SearchStores ==
    {[fails |-> f, records |-> [i \in 1..n |-> [id |-> i]], total_count |-> n + more] :
        f \in OneFailure(2), n \in 0..MaxRecords, more \in {0, 5}}

\* The domain the appends build, in their order, once both dates passed.
OrderDomain(filters) ==
    (IF TruthyInt(filters.partner_id)
         THEN <<Pred("partner_id", "=", filters.partner_id.v)>> ELSE <<>>)
      \o (IF TruthyDate(filters.date_from)
         THEN <<Pred("date_order", ">=", filters.date_from.v)>> ELSE <<>>)
      \o (IF TruthyDate(filters.date_to)
         THEN <<Pred("date_order", "<=", filters.date_to.v)>> ELSE <<>>)
      \o (IF TruthyStr(filters.state)
         THEN <<Pred("state", "=", filters.state.v)>> ELSE <<>>)

\* The order search counting every record of the model: search_count
\* without the domain.
search_orders_count_all(model, filters, st) ==
    IF DateRejected(filters.date_from) \/ DateRejected(filters.date_to)
    THEN Run(<<>>, Failure("Invalid date format"))
    ELSE
      LET domain == OrderDomain(filters)
          page == [limit |-> filters.limit, offset |-> filters.offset]
          r == Issue(<<Call(model, "search_read", domain, page, TRUE),
                       Call(model, "search_count", <<>>, NoVals, TRUE)>>, st.fails)
      IN  IF r.outcome.kind = "raised" THEN r
          ELSE Run(r.calls, Success([count |-> Len(st.records),
                                     total_count |-> st.total_count,
                                     orders |-> st.records]))

\* The try block of both order searches; model is the Odoo model searched.
search_orders_body(model, filters, st) ==
    IF DateRejected(filters.date_from) \/ DateRejected(filters.date_to)
    THEN Run(<<>>, Failure("Invalid date format"))
    ELSE
      LET domain == OrderDomain(filters)
          page == [limit |-> filters.limit, offset |-> filters.offset]
          r == Issue(<<Call(model, "search_read", domain, page, TRUE),
                       Call(model, "search_count", domain, NoVals, TRUE)>>, st.fails)
      IN  IF r.outcome.kind = "raised" THEN r
          ELSE Run(r.calls, Success([count |-> Len(st.records),
                                     total_count |-> st.total_count,
                                     orders |-> st.records]))

search_sales_orders(filters, st) ==
    TryExcept(search_orders_body("sale.order", filters, st))

search_purchase_orders(filters, st) ==
    TryExcept(search_orders_body("purchase.order", filters, st))

---------------------------------------------------------------------------
(* tools_accountings.search_journal_entries                                *)

JournalFilters ==
    {[date_from |-> f, date_to |-> t, journal_id |-> j, state |-> s,
      limit |-> 20, offset |-> 0] :
        f \in OptDates, t \in OptDates, j \in OptIds, s \in OptStates}

\* Entries as the store returns them: with or without line ids.
JournalStores ==
    {[fails |-> f, records |-> rs, total_count |-> Len(rs)] :
        f \in OneFailure(2 + MaxRecords),
        rs \in SeqsOf({[line_ids |-> <<>>], [line_ids |-> <<11, 12>>]}, 0, MaxRecords)}

JournalDomain(filters) ==
    (IF TruthyDate(filters.date_from)
         THEN <<Pred("date", ">=", filters.date_from.v)>> ELSE <<>>)
      \o (IF TruthyDate(filters.date_to)
         THEN <<Pred("date", "<=", filters.date_to.v)>> ELSE <<>>)
      \o (IF TruthyInt(filters.journal_id)
         THEN <<Pred("journal_id", "=", filters.journal_id.v)>> ELSE <<>>)
      \o (IF TruthyStr(filters.state)
         THEN <<Pred("state", "=", filters.state.v)>> ELSE <<>>)

\* One account.move.line search_read for every entry that has line ids.
RECURSIVE LineReads(_)
LineReads(entries) ==
    IF Len(entries) = 0 THEN <<>>
    ELSE (IF Len(Head(entries).line_ids) > 0
          THEN <<Call("account.move.line", "search_read",
                      <<Pred("id", "in", Head(entries).line_ids)>>, NoVals, TRUE)>>
          ELSE <<>>) \o LineReads(Tail(entries))

search_journal_entries_body(filters, st) ==
    IF DateRejected(filters.date_from) \/ DateRejected(filters.date_to)
    THEN Run(<<>>, Failure("Formato de fecha invalido"))
    ELSE
      LET domain == JournalDomain(filters)
          page == [limit |-> filters.limit, offset |-> filters.offset]
          r == Issue(<<Call("account.move", "search_read", domain, page, TRUE),
                       Call("account.move", "search_count", domain, NoVals, TRUE)>>
                       \o LineReads(st.records), st.fails)
      IN  IF r.outcome.kind = "raised" THEN r
          ELSE Run(r.calls, Success([count |-> Len(st.records),
                                     total_count |-> st.total_count,
                                     entries |-> st.records]))

search_journal_entries(filters, st) ==
    TryExcept(search_journal_entries_body(filters, st))

---------------------------------------------------------------------------
(* tools_sales.create_sales_order, tools_purchase.create_purchase_order    *)

\* Order lines: no unit price, a unit price of 0, a unit price.
OrderLines == {[product_id |-> 1, qty |-> 2, price_unit |-> u] : u \in {None, Some(0), Some(5)}}

OrderCreates ==
    {[partner_id |-> 7, date_order |-> d, order_lines |-> ls] :
        d \in OptDates, ls \in SeqsOf(OrderLines, 0, MaxLines)}

\* What the store does to a create followed by a read: raise at one of
\* them, or answer the read with no record.
CreateStores ==
    {[fails |-> f, readEmpty |-> FALSE] : f \in OneFailure(2)}
      \cup {[fails |-> {}, readEmpty |-> TRUE]}

\* The try block of both order creations.
create_order_body(model, order, st) ==
    IF DateRejected(order.date_order)
    THEN Run(<<>>, Failure("Invalid date format"))
    ELSE
      LET order_vals == [partner_id |-> order.partner_id,
                         date_order |-> IF TruthyDate(order.date_order)
                                        THEN order.date_order ELSE NoneDate,
                         order_line |-> order.order_lines]
          r == Issue(<<Call(model, "create", <<>>, order_vals, TRUE),
                       Call(model, "read", <<>>, NoVals, TRUE)>>, st.fails)
      IN  IF r.outcome.kind = "raised" THEN r
          ELSE IF st.readEmpty THEN Run(r.calls, Raised("list index out of range"))
          ELSE Run(r.calls, Success([order_id |-> 1, order_name |-> "O/1"]))

create_sales_order(order, st) ==
    TryExcept(create_order_body("sale.order", order, st))

create_purchase_order(order, st) ==
    TryExcept(create_order_body("purchase.order", order, st))

---------------------------------------------------------------------------
(* tools_accountings.create_journal_entry                                  *)

\* Lines with amounts in thousandths.  For every entry built from them
\* Round2 of the exact sum equals round(sum(...), 2) of the float sum.
JournalLines ==
    {[debit |-> 100000, credit |-> 0], [debit |-> 0, credit |-> 100000],
     [debit |-> 0, credit |-> 100005], [debit |-> 100004, credit |-> 0],
     [debit |-> 0, credit |-> 100006], [debit |-> 0, credit |-> 0],
     [debit |-> 100004, credit |-> 100006]}

JournalEntries ==
    {[journal_id |-> 1, date |-> d, lines |-> ls] :
        d \in OptDates, ls \in SeqsOf(JournalLines, 1, MaxLines)}

total_debit(entry) == SumSeq([i \in 1..Len(entry.lines) |-> entry.lines[i].debit])
total_credit(entry) == SumSeq([i \in 1..Len(entry.lines) |-> entry.lines[i].credit])

\* A balance check by tolerance: abs(total_debit - total_credit) > 0.01.
UnbalancedBeyondCent(entry) ==
    LET difference == total_debit(entry) - total_credit(entry)
    IN  difference > 10 \/ difference < -10

\* The balance check: round(total_debit, 2) != round(total_credit, 2).
Unbalanced(entry) == Round2(total_debit(entry)) # Round2(total_credit(entry))

create_journal_entry_body(entry, st) ==
    IF Unbalanced(entry)
    THEN Run(<<>>, Failure("El asiento no esta cuadrado"))
    ELSE IF DateRejected(entry.date)
    THEN Run(<<>>, Failure("Formato de fecha invalido"))
    ELSE
      LET move_vals == [journal_id |-> entry.journal_id,
                        date |-> IF TruthyDate(entry.date) THEN entry.date ELSE NoneDate,
                        line_ids |-> entry.lines]
          r == Issue(<<Call("account.move", "create", <<>>, move_vals, TRUE),
                       Call("account.move", "read", <<>>, NoVals, TRUE)>>, st.fails)
      IN  IF r.outcome.kind = "raised" THEN r
          ELSE IF st.readEmpty THEN Run(r.calls, Raised("list index out of range"))
          ELSE Run(r.calls, Success([move_id |-> 1, name |-> "MOVE/1", state |-> "draft"]))

create_journal_entry(entry, st) == TryExcept(create_journal_entry_body(entry, st))

---------------------------------------------------------------------------
(* tools_inventory.create_inventory_adjustment                             *)

AdjustmentLines ==
    {[product_id |-> 1, location_id |-> 8, product_qty |-> 5],
     [product_id |-> 2, location_id |-> 8, product_qty |-> 0]}

Adjustments ==
    {[name |-> "count", date |-> d, adjustment_lines |-> ls] :
        d \in OptDates, ls \in SeqsOf(AdjustmentLines, 0, MaxLines)}

\* The store: whether ir.model knows stock.inventory, and for the n-th
\* adjustment line whether a quant exists already.
AdjustmentStores ==
    {[fails |-> f, inventory_models |-> c, quants |-> q] :
        f \in OneFailure(2 + 2 * MaxLines), c \in {0, 1},
        q \in [1..MaxLines -> BOOLEAN]}

\* The inventory validated without its lines.
NoLineCreates(lines) == <<>>

\* stock.inventory.line creates, one per adjustment line.
InventoryLineCreates(lines) ==
    [i \in 1..Len(lines) |-> Call("stock.inventory.line", "create", <<>>, lines[i], TRUE)]

\* The ids of the quants the search of the i-th line returns: two quants
\* when the store has a quant for the line, none otherwise.
QuantsFound(quants, i) == IF quants[i] THEN <<20 + 2 * i, 21 + 2 * i>> ELSE <<>>

\* The id the store gives the quant created for the i-th line.
NewQuantId(i) == 40 + i

\* quant_id = quants[-1]["id"]: the last quant found.
LastQuantId(quants, i) ==
    IF Len(QuantsFound(quants, i)) > 0
    THEN QuantsFound(quants, i)[Len(QuantsFound(quants, i))]
    ELSE NewQuantId(i)

\* quant_id = quants[0]["id"] if quants, else the id create returned:
\* what result_ids.append(quant_id) appends for the i-th line.
QuantId(quants, i) ==
    IF Len(QuantsFound(quants, i)) > 0 THEN QuantsFound(quants, i)[1]
    ELSE NewQuantId(i)

\* The stock.quant flow for the lines from the i-th on: a search_read, then
\* a write on the quant found or a create.
RECURSIVE QuantCalls(_, _, _)
QuantCalls(lines, quants, i) ==
    IF i > Len(lines) THEN <<>>
    ELSE <<Call("stock.quant", "search_read",
                <<Pred("product_id", "=", lines[i].product_id),
                  Pred("location_id", "=", lines[i].location_id)>>, NoVals, TRUE),
           IF Len(QuantsFound(quants, i)) > 0
           THEN Call("stock.quant", "write", <<>>,
                     [ids |-> <<QuantId(quants, i)>>,
                      inventory_quantity |-> lines[i].product_qty], TRUE)
           ELSE Call("stock.quant", "create", <<>>,
                     [product_id |-> lines[i].product_id,
                      location_id |-> lines[i].location_id,
                      inventory_quantity |-> lines[i].product_qty], TRUE)>>
         \o QuantCalls(lines, quants, i + 1)

create_inventory_adjustment_body(adjustment, st) ==
    LET probe == Call("ir.model", "search_count",
                      <<Pred("model", "=", "stock.inventory")>>, NoVals, TRUE)
        lines == adjustment.adjustment_lines
        r0 == Issue(<<probe>>, st.fails)
    IN  IF r0.outcome.kind = "raised" THEN r0
        ELSE IF st.inventory_models > 0
        THEN IF DateRejected(adjustment.date)
             THEN Run(r0.calls, Failure("Invalid date format"))
             ELSE
               LET r == Issue(<<probe,
                                Call("stock.inventory", "create", <<>>,
                                     [name |-> adjustment.name,
                                      date |-> IF TruthyDate(adjustment.date)
                                               THEN adjustment.date ELSE NoneDate],
                                     TRUE)>>
                                \o InventoryLineCreates(lines)
                                \o <<Call("stock.inventory", "action_validate",
                                          <<>>, NoVals, TRUE)>>, st.fails)
               IN  IF r.outcome.kind = "raised" THEN r
                   ELSE Run(r.calls, Success([inventory_id |-> 1,
                                              name |-> adjustment.name]))
        ELSE
          LET result_ids == [i \in 1..Len(lines) |-> QuantId(st.quants, i)]
              r == Issue(<<probe>> \o QuantCalls(lines, st.quants, 1)
                           \o <<Call("stock.quant", "action_apply_inventory",
                                     <<>>, result_ids, TRUE)>>, st.fails)
          IN  IF r.outcome.kind = "raised" THEN r
              ELSE Run(r.calls, Success([quant_ids |-> result_ids,
                                         name |-> adjustment.name]))

create_inventory_adjustment(adjustment, st) ==
    TryExcept(create_inventory_adjustment_body(adjustment, st))

---------------------------------------------------------------------------
(* tools_inventory.check_product_availability                              *)

\* List[int] of product or supplier ids.
IdLists == {[i \in 1..n |-> i] : n \in 0..MaxIds}

AvailabilityInputs ==
    {[product_ids |-> ids, location_id |-> l] : ids \in IdLists, l \in OptIds}

\* The store raising at up to two of the first n calls.
FailSets(n) == {f \in SUBSET (1..n) : Cardinality(f) <= 2}

\* The store: the products the lookup finds, the product ids whose read
\* returns no record, whether the location exists.
AvailabilityStores ==
    {[fails |-> f, products |-> ps, no_record |-> e, location_found |-> lf] :
        f \in FailSets(2 + MaxIds), ps \in IdLists, e \in {{}, {1}},
        lf \in BOOLEAN}

\* The entry of availability for the i-th requested product: its read is
\* call 1 + i, and an exception of that read is caught inside the loop.
AvailabilityEntry(params, st, i) ==
    LET id == params.product_ids[i]
    IN  [id |-> id,
         status |-> IF (1 + i) \in st.fails THEN "error"
                    ELSE IF id \in st.no_record THEN "not_found"
                    ELSE "ok"]

check_product_availability_body(params, st) ==
    LET n == Len(params.product_ids)
        lookup == Call("product.product", "search_read",
                       <<Pred("id", "in", params.product_ids)>>, NoVals, TRUE)
        r0 == Issue(<<lookup>>, st.fails)
        reads == [i \in 1..n |->
                    Call("product.product", "read", <<>>,
                         [id |-> params.product_ids[i],
                          location |-> IF TruthyInt(params.location_id)
                                       THEN params.location_id ELSE None],
                         (1 + i) \notin st.fails)]
        locate == IF TruthyInt(params.location_id)
                  THEN <<Call("stock.location", "search_read",
                              <<Pred("id", "=", params.location_id.v)>>, NoVals,
                              (2 + n) \notin st.fails)>>
                  ELSE <<>>
        location == IF ~TruthyInt(params.location_id) THEN "none"
                    ELSE IF (2 + n) \in st.fails THEN "unknown"
                    ELSE IF st.location_found THEN "found" ELSE "none"
    IN  IF r0.outcome.kind = "raised" THEN r0
        ELSE IF NoRecords(st.products)
        THEN Run(r0.calls, Failure("No products found with the provided IDs"))
        ELSE Run(<<lookup>> \o reads \o locate,
                 Success([products |-> [i \in 1..n |-> AvailabilityEntry(params, st, i)],
                          location |-> location]))

check_product_availability(params, st) ==
    TryExcept(check_product_availability_body(params, st))

---------------------------------------------------------------------------
(* Periods of the analyses: date_from and date_to are required strings     *)

PeriodDates ==
    {Ymd(2023, 3, 1), Ymd(2023, 12, 31), Ymd(2024, 1, 1), Ymd(2024, 2, 1),
     Ymd(2024, 2, 29), Ymd(2024, 3, 1)}

GoodPeriods == {[date_from |-> f, date_to |-> t] : f \in PeriodDates, t \in PeriodDates}

BadPeriods ==
    {[date_from |-> f, date_to |-> t] : f \in {EmptyText, JunkText, Ymd(2023, 2, 29)},
                                        t \in {Ymd(2024, 2, 29)}}
      \cup {[date_from |-> f, date_to |-> t] : f \in {Ymd(2024, 2, 1)},
                                               t \in {EmptyText, Ymd(2024, 2, 30)}}

Periods == GoodPeriods \cup BadPeriods

February == [date_from |-> Ymd(2024, 2, 1), date_to |-> Ymd(2024, 2, 29)]

\* A period whose date_from is after its date_to.
Inverted == [date_from |-> Ymd(2024, 2, 29), date_to |-> Ymd(2024, 2, 1)]

\* A validation that also wants date_from not after date_to.
PeriodOKOrdered(params) ==
    /\ ParseOK(params.date_from) /\ ParseOK(params.date_to)
    /\ ToOrdinal(params.date_from) <= ToOrdinal(params.date_to)

\* Both strptime calls of the "validate dates" block succeed.
PeriodOK(params) == ParseOK(params.date_from) /\ ParseOK(params.date_to)

\* The predicates every analysis puts on its date field.
PeriodDomain(field, params) ==
    <<Pred(field, ">=", params.date_from), Pred(field, "<=", params.date_to)>>

---------------------------------------------------------------------------
(* Grouping and ranking of the analyses                                    *)

\* A many2one field as search_read returns it: False, or [id, name].
NoLink == [some |-> FALSE, v |-> <<>>]
Link(id, name) == [some |-> TRUE, v |-> <<id, name>>]

\* x[0] if x else 0
LinkId(x) == IF x.some THEN x.v[1] ELSE 0

\* x[1] if x else "Unknown"
LinkName(x) == IF x.some THEN x.v[2] ELSE "Unknown"

\* Sequences over S of length lo..hi in which no record comes twice.
DistinctSeqsOf(S, lo, hi) ==
    {s \in SeqsOf(S, lo, hi) : \A i, j \in 1..Len(s) : i # j => s[i] # s[j]}

\* The records that open a group: `if key not in data`, in the order of
\* the loop, which is the order the dict keeps.
FirstSeen(links) ==
    LET firsts == {i \in 1..Len(links) :
                     \A j \in 1..(i - 1) : LinkId(links[j]) # LinkId(links[i])}
    IN  [k \in 1..Cardinality(firsts) |->
            CHOOSE i \in firsts : Cardinality({j \in firsts : j < i}) = k - 1]

\* data[key][field] += amount over the records of the group of record g.
GroupSum(links, g, amounts) ==
    SumSeq([i \in 1..Len(links) |->
              IF LinkId(links[i]) = LinkId(links[g]) THEN amounts[i] ELSE 0])

\* data[key]["order_count"] = 1: the count set, not added to.
GroupCountOne(links, g) == 1

\* data[key]["order_count"] += 1 over the records of the group of record g.
GroupCount(links, g) ==
    Cardinality({i \in 1..Len(links) : LinkId(links[i]) = LinkId(links[g])})

\* The entries in the order they were collected: no sort.
Unsorted(entries, keys) == entries

\* sorted(entries, key=..., reverse=True) with keys[i] the float key of
\* entries[i]: entry j comes before entry i when its key is greater, and
\* when the keys are equal and j was before i (the sort is stable).
SortedDescending(entries, keys) ==
    LET n == Len(entries)
        Before(j, i) == IF keys[j] = keys[i] THEN j < i ELSE FloatGeq(keys[j], keys[i])
        rank == [i \in 1..n |-> Cardinality({j \in 1..n : j # i /\ Before(j, i)}) + 1]
    IN  [k \in 1..n |-> entries[CHOOSE i \in 1..n : rank[i] = k]]

\* top[:10]
TopLimit == 10

\* top[:] : the whole list.
TopAll(entries) == entries

Top(entries) ==
    SubSeq(entries, 1, IF Len(entries) > TopLimit THEN TopLimit ELSE Len(entries))

---------------------------------------------------------------------------
(* tools_sales.analyze_sales_performance                                   *)

\* Optional[str] group_by: None, the three groupings and an unknown one.
GroupBys == {NoneStr, Some("product"), Some("customer"), Some("salesperson"),
             Some("region")}

\* sale.order records as the store returns them.
SaleOrders ==
    {[id |-> 1, partner_id |-> Link(3, "Azure"), user_id |-> Link(4, "Mitchell"),
      amount_total |-> 300],
     [id |-> 2, partner_id |-> NoLink, user_id |-> NoLink, amount_total |-> -100],
     [id |-> 3, partner_id |-> Link(5, "Deco"), user_id |-> Link(4, "Mitchell"),
      amount_total |-> 300],
     [id |-> 4, partner_id |-> NoLink, user_id |-> Link(6, "Marc"),
      amount_total |-> 300],
     [id |-> 5, partner_id |-> Link(3, "Azure"), user_id |-> NoLink,
      amount_total |-> 50]}

\* The orders of the previous period.
PreviousOrders == {o \in SaleOrders : o.amount_total \in {300, -100} /\ o.id < 3}

\* sale.order.line records as the store returns them.
SaleOrderLines ==
    {[id |-> 1, product_id |-> Link(8, "Desk"), product_uom_qty |-> 2,
      price_subtotal |-> 200],
     [id |-> 2, product_id |-> NoLink, product_uom_qty |-> 1, price_subtotal |-> 100],
     [id |-> 3, product_id |-> Link(9, "Chair"), product_uom_qty |-> 3,
      price_subtotal |-> 200],
     [id |-> 4, product_id |-> NoLink, product_uom_qty |-> 4, price_subtotal |-> 100],
     [id |-> 5, product_id |-> Link(8, "Desk"), product_uom_qty |-> 1,
      price_subtotal |-> 250]}

PlainOrderLines ==
    <<CHOOSE l \in SaleOrderLines : l.id = 1, CHOOSE l \in SaleOrderLines : l.id = 2>>

SalesStores ==
    {[fails |-> f, sales_data |-> cur, prev_sales_data |-> prev,
      order_lines |-> PlainOrderLines] :
        f \in OneFailure(3),
        cur \in DistinctSeqsOf(SaleOrders, 0, MaxRecords),
        prev \in SeqsOf(PreviousOrders, 0, MaxRecords)}

\* Stores that answer every call, over every choice of order lines.
OrderLineStores ==
    {[fails |-> {}, sales_data |-> <<CHOOSE o \in SaleOrders : o.id = 1>>,
      prev_sales_data |-> <<>>, order_lines |-> ls] :
        ls \in DistinctSeqsOf(SaleOrderLines, 0, MaxRecords)}

QuietSalesStore ==
    [fails |-> {}, sales_data |-> <<>>, prev_sales_data |-> <<>>, order_lines |-> <<>>]

\* Names of partners, users and products of the large stores.
GroupNames ==
    <<"Azure", "Deco", "Gemini", "Lumber", "Ready Mat", "Wood Corner", "Jackson",
      "Mitchell", "Marc", "Desk", "Chair", "Lamp", "Shelf">>

\* The link of record i when the records go round k group keys; the first
\* key is the absent link.
ManyLink(base, i, k) ==
    IF (i - 1) % k = 0 THEN NoLink
    ELSE Link(base + ((i - 1) % k), GroupNames[((i - 1) % Len(GroupNames)) + 1])

\* n sale.order records over k customers and k salespersons.
ManyOrders(n, k) ==
    [i \in 1..n |-> [id |-> 10 + i, partner_id |-> ManyLink(20, i, k),
                     user_id |-> ManyLink(40, i, k),
                     amount_total |-> 10 * ((7 * i) % 13)]]

\* n sale.order.line records over k products.
ManyLines(n, k) ==
    [i \in 1..n |-> [id |-> 10 + i, product_id |-> ManyLink(60, i, k),
                     product_uom_qty |-> i,
                     price_subtotal |-> 10 * ((5 * i) % 11)]]

\* Stores that answer every call with as many groups as a top list holds,
\* and with more; one group has two records.
ManySalesStores ==
    {[fails |-> {}, sales_data |-> ManyOrders(k + 1, k), prev_sales_data |-> <<>>,
      order_lines |-> ManyLines(k + 1, k)] : k \in {MaxGroups - 2, MaxGroups}}

\* The invocations modelled: every period against a quiet store, one
\* period under every grouping against every store, the grouping by
\* product against every choice of order lines, the three groupings
\* against the large stores, and an inverted period against the stores
\* without orders of the previous period.
SalesCases ==
    {<<[date_from |-> w.date_from, date_to |-> w.date_to, group_by |-> NoneStr],
       QuietSalesStore>> : w \in Periods}
      \cup {<<[date_from |-> February.date_from, date_to |-> February.date_to,
               group_by |-> g], st>> : g \in GroupBys, st \in SalesStores}
      \cup {<<[date_from |-> February.date_from, date_to |-> February.date_to,
               group_by |-> Some("product")], st>> : st \in OrderLineStores}
      \cup {<<[date_from |-> February.date_from, date_to |-> February.date_to,
               group_by |-> g], st>> :
                g \in {Some("product"), Some("customer"), Some("salesperson")},
                st \in ManySalesStores}
      \cup {<<[date_from |-> Inverted.date_from, date_to |-> Inverted.date_to,
               group_by |-> NoneStr], st>> :
                st \in {x \in SalesStores : Len(x.prev_sales_data) = 0}}

AmountTotal(orders) == SumSeq([i \in 1..Len(orders) |-> orders[i].amount_total])

\* The previous period ending on date_from itself.
PreviousPeriodNoGap(params) ==
    LET delta == ToOrdinal(params.date_to) - ToOrdinal(params.date_from)
        prev_date_to == ToOrdinal(params.date_from)
    IN  [date_from |-> FromOrdinal(prev_date_to - delta),
         date_to |-> FromOrdinal(prev_date_to)]

\* The previous period with delta counted in days of the window.
PreviousPeriodInclusive(params) ==
    LET delta == ToOrdinal(params.date_to) - ToOrdinal(params.date_from) + 1
        prev_date_to == ToOrdinal(params.date_from) - 1
    IN  [date_from |-> FromOrdinal(prev_date_to - delta),
         date_to |-> FromOrdinal(prev_date_to)]

\* delta = date_to - date_from; prev_date_to = date_from - timedelta(days=1);
\* prev_date_from = prev_date_to - delta; both through strftime.
PreviousPeriod(params) ==
    LET delta == ToOrdinal(params.date_to) - ToOrdinal(params.date_from)
        prev_date_to == ToOrdinal(params.date_from) - 1
    IN  [date_from |-> FromOrdinal(prev_date_to - delta),
         date_to |-> FromOrdinal(prev_date_to)]

\* a / b to the nearest integer, b > 0.
RoundDiv(a, b) == (2 * a + b) \div (2 * b)

\* round(((current - previous) / previous) * 100, 2) in hundredths of a
\* percent, previous # 0.  No quotient of the totals modelled lies on a tie.
PercentOf(current_total, previous_total) ==
    IF previous_total > 0
    THEN RoundDiv(10000 * (current_total - previous_total), previous_total)
    ELSE RoundDiv(10000 * (previous_total - current_total), -previous_total)

\* percent_change = 0; if previous_total > 0: percent_change = ...
PercentChange(current_total, previous_total) ==
    IF previous_total > 0 THEN PercentOf(current_total, previous_total) ELSE 0

SaleStates == <<"sale", "done">>

\* key=lambda x: x[1]["amount"]
ByAmount(entries) == [i \in 1..Len(entries) |-> FloatOf(entries[i].amount)]

\* product_data.items(): one entry per product of the order lines.
ProductGroups(order_lines) ==
    LET links == [i \in 1..Len(order_lines) |-> order_lines[i].product_id]
        firsts == FirstSeen(links)
    IN  [k \in 1..Len(firsts) |->
            [id |-> LinkId(links[firsts[k]]),
             name |-> LinkName(links[firsts[k]]),
             quantity |-> GroupSum(links, firsts[k],
                                   [i \in 1..Len(order_lines) |->
                                      order_lines[i].product_uom_qty]),
             amount |-> GroupSum(links, firsts[k],
                                 [i \in 1..Len(order_lines) |->
                                    order_lines[i].price_subtotal])]]

\* customer_data.items() and salesperson_data.items(): one entry per value
\* of the link field of the orders.
OrderGroups(orders, links) ==
    LET firsts == FirstSeen(links)
    IN  [k \in 1..Len(firsts) |->
            [id |-> LinkId(links[firsts[k]]),
             name |-> LinkName(links[firsts[k]]),
             order_count |-> GroupCount(links, firsts[k]),
             amount |-> GroupSum(links, firsts[k],
                                 [i \in 1..Len(orders) |-> orders[i].amount_total])]]

\* grouped_data, a dict that stays empty when nothing was grouped.
GroupedData(params, st) ==
    LET orders == st.sales_data
        products == ProductGroups(st.order_lines)
        customers == OrderGroups(orders, [i \in 1..Len(orders) |-> orders[i].partner_id])
        salespersons == OrderGroups(orders, [i \in 1..Len(orders) |-> orders[i].user_id])
    IN  IF ~TruthyStr(params.group_by) THEN <<>>
        ELSE IF params.group_by.v = "product"
        THEN IF Len(orders) > 0
             THEN [products |-> Top(SortedDescending(products, ByAmount(products)))]
             ELSE <<>>
        ELSE IF params.group_by.v = "customer"
        THEN [customers |-> Top(SortedDescending(customers, ByAmount(customers)))]
        ELSE IF params.group_by.v = "salesperson"
        THEN [salespersons |-> SortedDescending(salespersons, ByAmount(salespersons))]
        ELSE <<>>

\* if grouped_data: result["grouped_data"] = grouped_data
WithGroupedData(result, grouped_data) ==
    IF DOMAIN grouped_data = {} THEN result
    ELSE [period |-> result.period, summary |-> result.summary,
          grouped_data |-> grouped_data]

analyze_sales_performance_body(params, st) ==
    IF ~PeriodOK(params)
    THEN Run(<<>>, Failure("Invalid date format. Use YYYY-MM-DD."))
    ELSE
      LET previous == PreviousPeriod(params)
          domain == PeriodDomain("date_order", params)
                      \o <<Pred("state", "in", SaleStates)>>
          prev_domain == PeriodDomain("date_order", previous)
                           \o <<Pred("state", "in", SaleStates)>>
          order_ids == [i \in 1..Len(st.sales_data) |-> st.sales_data[i].id]
          lines == IF params.group_by = Some("product") /\ Len(order_ids) > 0
                   THEN <<Call("sale.order.line", "search_read",
                               <<Pred("order_id", "in", order_ids)>>, NoVals, TRUE)>>
                   ELSE <<>>
          r == Issue(<<Call("sale.order", "search_read", domain, NoVals, TRUE),
                       Call("sale.order", "search_read", prev_domain, NoVals, TRUE)>>
                       \o lines, st.fails)
          current_total == AmountTotal(st.sales_data)
          previous_total == AmountTotal(st.prev_sales_data)
      IN  IF r.outcome.kind = "raised" THEN r
          ELSE Run(r.calls,
                   Success(WithGroupedData(
                           [period |-> [from |-> params.date_from, to |-> params.date_to],
                            summary |->
                              [order_count |-> Len(st.sales_data),
                               total_amount |-> current_total,
                               previous_period |->
                                 [from |-> previous.date_from,
                                  to |-> previous.date_to,
                                  order_count |-> Len(st.prev_sales_data),
                                  total_amount |-> previous_total],
                               percent_change |->
                                 PercentChange(current_total, previous_total)]],
                           GroupedData(params, st))))

analyze_sales_performance(params, st) ==
    TryExcept(analyze_sales_performance_body(params, st))

---------------------------------------------------------------------------
(* tools_purchase.analyze_supplier_performance                             *)

\* Optional[List[int]]: None, [] and lists of ids.
NoneList == [some |-> FALSE, v |-> <<>>]
OptIdLists == {NoneList} \cup {Some(ids) : ids \in IdLists}

SupplierInputs ==
    {[date_from |-> w.date_from, date_to |-> w.date_to, supplier_ids |-> ids] :
        w \in Periods, ids \in OptIdLists}

\* A datetime field as search_read returns it: False, or the text
\* "YYYY-MM-DD HH:MM:SS".
NoStamp == [some |-> FALSE, day |-> EmptyText, clock |-> ""]
Stamp(day, clock) == [some |-> TRUE, day |-> day, clock |-> clock]

\* purchase.order records as the store returns them.
PurchaseOrders ==
    {[id |-> 1, partner_id |-> Link(1, "Wood Corner"), amount_total |-> 300,
      date_planned |-> Stamp(Ymd(2024, 2, 10), "12:00:00"),
      effective_date |-> Stamp(Ymd(2024, 2, 10), "18:30:00")],
     [id |-> 2, partner_id |-> NoLink, amount_total |-> 100,
      date_planned |-> Stamp(Ymd(2024, 2, 10), "12:00:00"),
      effective_date |-> NoStamp],
     [id |-> 3, partner_id |-> Link(2, "Ready Mat"), amount_total |-> 300,
      date_planned |-> Stamp(Ymd(2024, 2, 10), "12:00:00"),
      effective_date |-> Stamp(Ymd(2024, 2, 13), "09:00:00")],
     [id |-> 4, partner_id |-> NoLink, amount_total |-> 200,
      date_planned |-> Stamp(Ymd(2024, 2, 10), "12:00:00"),
      effective_date |-> Stamp(Ymd(2024, 2, 8), "09:00:00")],
     [id |-> 5, partner_id |-> Link(1, "Wood Corner"), amount_total |-> 50,
      date_planned |-> Stamp(Ymd(2024, 2, 28), "12:00:00"),
      effective_date |-> Stamp(Ymd(2024, 3, 1), "00:00:00")],
     [id |-> 6, partner_id |-> Link(2, "Ready Mat"), amount_total |-> 80,
      date_planned |-> NoStamp,
      effective_date |-> Stamp(Ymd(2024, 2, 13), "09:00:00")]}

SupplierStores ==
    {[fails |-> f, purchase_data |-> rs] :
        f \in OneFailure(1), rs \in DistinctSeqsOf(PurchaseOrders, 0, MaxRecords)}

PlainSupplierStores ==
    {st \in SupplierStores : Len(st.purchase_data) = 1 /\ st.purchase_data[1].id = 1}

PlainSupplierInput ==
    [date_from |-> February.date_from, date_to |-> February.date_to,
     supplier_ids |-> NoneList]

\* n purchase.order records over k suppliers, delivered from two days
\* early to two days late.
ManyPurchases(n, k) ==
    [i \in 1..n |-> [id |-> 10 + i, partner_id |-> ManyLink(20, i, k),
                     amount_total |-> 10 * ((7 * i) % 13),
                     date_planned |-> Stamp(Ymd(2024, 2, 10), "12:00:00"),
                     effective_date |-> IF i % 4 = 0 THEN NoStamp
                                        ELSE Stamp(Ymd(2024, 2, 8 + (i % 5)), "09:00:00")]]

\* Stores that answer the call with many suppliers, one of them with two
\* orders, and with two suppliers of three orders each.
ManySupplierStores ==
    {[fails |-> {}, purchase_data |-> ManyPurchases(k + 1, k)] :
        k \in {MaxGroups - 2, MaxGroups}}
      \cup {[fails |-> {}, purchase_data |-> ManyPurchases(6, 2)]}

\* The invocations modelled: every input against the plain stores, and
\* the plain input and an inverted period against every store.
SupplierCases ==
    {<<params, st>> : params \in SupplierInputs, st \in PlainSupplierStores}
      \cup {<<PlainSupplierInput, st>> : st \in SupplierStores \cup ManySupplierStores}
      \cup {<<[date_from |-> Inverted.date_from, date_to |-> Inverted.date_to,
               supplier_ids |-> NoneList], st>> : st \in SupplierStores}

PurchaseStates == <<"purchase", "done">>

\* if order.get("effective_date") and order.get("date_planned")
Delivered(order) == order.effective_date.some /\ order.date_planned.some

\* strptime of the text before the blank, for both dates.
DeliveryDatesOK(order) ==
    ParseOK(order.effective_date.day) /\ ParseOK(order.date_planned.day)

\* delay_days = (effective_date - planned_date).days
DelayDays(order) ==
    ToOrdinal(order.effective_date.day) - ToOrdinal(order.date_planned.day)

\* The delivered orders of the group of record g: data["orders"].
GroupDeliveries(orders, links, g) ==
    {i \in 1..Len(orders) : LinkId(links[i]) = LinkId(links[g]) /\ Delivered(orders[i])}

\* Every delivery counted as on time.
OnTimeAll(orders, links, g) == Cardinality(GroupDeliveries(orders, links, g))

\* if delay_days <= 0: on_time_delivery_count += 1
OnTimeCount(orders, links, g) ==
    Cardinality({i \in GroupDeliveries(orders, links, g) : DelayDays(orders[i]) <= 0})

\* else: late_delivery_count += 1
LateCount(orders, links, g) ==
    Cardinality({i \in GroupDeliveries(orders, links, g) : DelayDays(orders[i]) > 0})

\* if delay_days: avg_delay_days = sum(delay_days) / len(delay_days); 0
\* when the supplier has no delivery.
AvgDelayDays(orders, links, g) ==
    LET ds == GroupDeliveries(orders, links, g)
    IN  IF ds = {} THEN FloatZero
        ELSE TrueDiv(SumSeq([i \in 1..Len(orders) |->
                               IF i \in ds THEN DelayDays(orders[i]) ELSE 0]),
                     Cardinality(ds))

\* total_deliveries = on_time + late; (on_time / total_deliveries) * 100
\* if total_deliveries > 0, else 0.
OnTimeDeliveryRate(on_time, late, order_count) ==
    IF on_time + late > 0 THEN MulInt(TrueDiv(on_time, on_time + late), 100)
    ELSE FloatZero

\* supplier_data.items(): one entry per partner of the orders.
SupplierGroups(orders) ==
    LET links == [i \in 1..Len(orders) |-> orders[i].partner_id]
        firsts == FirstSeen(links)
    IN  [k \in 1..Len(firsts) |->
            [id |-> LinkId(links[firsts[k]]),
             name |-> LinkName(links[firsts[k]]),
             order_count |-> GroupCount(links, firsts[k]),
             total_amount |-> GroupSum(links, firsts[k],
                                       [i \in 1..Len(orders) |->
                                          orders[i].amount_total]),
             on_time_delivery_count |-> OnTimeCount(orders, links, firsts[k]),
             late_delivery_count |-> LateCount(orders, links, firsts[k]),
             avg_delay_days |-> AvgDelayDays(orders, links, firsts[k]),
             on_time_delivery_rate |->
               OnTimeDeliveryRate(OnTimeCount(orders, links, firsts[k]),
                                  LateCount(orders, links, firsts[k]),
                                  GroupCount(links, firsts[k]))]]

\* key=lambda x: x[1]["total_amount"]
ByTotalAmount(entries) == [i \in 1..Len(entries) |-> FloatOf(entries[i].total_amount)]

SupplierDomain(params) ==
    PeriodDomain("date_order", params)
      \o <<Pred("state", "in", PurchaseStates)>>
      \o (IF TruthyList(params.supplier_ids)
          THEN <<Pred("partner_id", "in", params.supplier_ids.v)>> ELSE <<>>)

analyze_supplier_performance_body(params, st) ==
    IF ~PeriodOK(params)
    THEN Run(<<>>, Failure("Invalid date format. Use YYYY-MM-DD."))
    ELSE
      LET r == Issue(<<Call("purchase.order", "search_read", SupplierDomain(params),
                            NoVals, TRUE)>>, st.fails)
      IN  IF r.outcome.kind = "raised" THEN r
          ELSE IF \E i \in 1..Len(st.purchase_data) :
                     /\ Delivered(st.purchase_data[i])
                     /\ ~DeliveryDatesOK(st.purchase_data[i])
          THEN Run(r.calls, Raised("time data does not match format '%Y-%m-%d'"))
          ELSE Run(r.calls,
                   Success([period |-> [from |-> params.date_from, to |-> params.date_to],
                            summary |-> [supplier_count |->
                                           Len(SupplierGroups(st.purchase_data)),
                                         order_count |-> Len(st.purchase_data),
                                         total_amount |-> AmountTotal(st.purchase_data)],
                            suppliers |->
                              SortedDescending(SupplierGroups(st.purchase_data),
                                               ByTotalAmount(SupplierGroups(
                                                                 st.purchase_data)))]))

analyze_supplier_performance(params, st) ==
    TryExcept(analyze_supplier_performance_body(params, st))

---------------------------------------------------------------------------
(* tools_inventory.analyze_inventory_turnover                              *)

TurnoverInputs ==
    {[date_from |-> w.date_from, date_to |-> w.date_to,
      product_ids |-> ids, category_id |-> c] :
        w \in Periods, ids \in OptIdLists, c \in OptIds}

PlainTurnoverInput ==
    [date_from |-> February.date_from, date_to |-> February.date_to,
     product_ids |-> NoneList, category_id |-> None]

\* A stock.move record: product_uom_qty, and price_unit when the record
\* carries one (move.get("price_unit") is None when it does not).
Move(qty, price) == [product_uom_qty |-> qty, price_unit |-> price]

\* What the store holds of a product, in whole units: its standard_price,
\* its outgoing moves of the period, its stock_value and its qty_available
\* at date_from and at date_to.
ProductProfiles ==
    {[standard_price |-> 40, moves |-> <<Move(5, Some(100))>>,
      stock_value_from |-> 200, stock_value_to |-> 300,
      qty_from |-> 5, qty_to |-> 7],
     [standard_price |-> 30, moves |-> <<Move(10, Some(30))>>,
      stock_value_from |-> 0, stock_value_to |-> 0,
      qty_from |-> 0, qty_to |-> 0],
     [standard_price |-> 10, moves |-> <<Move(2, None), Move(3, Some(0))>>,
      stock_value_from |-> 3, stock_value_to |-> 4,
      qty_from |-> 1, qty_to |-> 2],
     [standard_price |-> 20, moves |-> <<Move(4, Some(-25))>>,
      stock_value_from |-> 100, stock_value_to |-> 100,
      qty_from |-> -2, qty_to |-> -3],
     [standard_price |-> 50, moves |-> <<>>,
      stock_value_from |-> 80, stock_value_to |-> 20,
      qty_from |-> 1, qty_to |-> 1]}

PlainProfile == CHOOSE p \in ProductProfiles : p.standard_price = 40

\* The product.product record of id `id` with the given holdings.
Product(id, p) ==
    [id |-> id, standard_price |-> p.standard_price, moves |-> p.moves,
     stock_value_from |-> p.stock_value_from, stock_value_to |-> p.stock_value_to,
     qty_from |-> p.qty_from, qty_to |-> p.qty_to]

\* The store: the products the lookup returns, and whether the records of
\* the valuation reads carry a stock_value field (KeyError when not).
TurnoverStores ==
    {[fails |-> f, products |-> [i \in 1..n |-> Product(i, PlainProfile)],
      stock_value |-> sv] :
        f \in FailSets(1 + 5 * MaxRecords), n \in 0..MaxRecords, sv \in BOOLEAN}

QuietTurnoverStore ==
    [fails |-> {}, products |-> <<Product(1, PlainProfile)>>, stock_value |-> TRUE]

\* Stores that answer every call, over every choice of holdings.
ValuedTurnoverStores ==
    {[fails |-> {}, products |-> [i \in 1..Len(ps) |-> Product(i, ps[i])],
      stock_value |-> sv] :
        ps \in SeqsOf(ProductProfiles, 1, MaxRecords), sv \in BOOLEAN}

\* Periods of 30 days, of 0 days and of -28 days.
ValuedPeriods ==
    {[date_from |-> Ymd(2024, 2, 1), date_to |-> Ymd(2024, 3, 1)],
     [date_from |-> Ymd(2024, 3, 1), date_to |-> Ymd(2024, 2, 29)],
     [date_from |-> Ymd(2024, 3, 1), date_to |-> Ymd(2024, 2, 1)]}

TurnoverCases ==
    {<<params, QuietTurnoverStore>> : params \in TurnoverInputs}
      \cup {<<PlainTurnoverInput, st>> : st \in TurnoverStores}
      \cup {<<[date_from |-> w.date_from, date_to |-> w.date_to,
               product_ids |-> NoneList, category_id |-> None], st>> :
               w \in ValuedPeriods, st \in ValuedTurnoverStores}
      \cup {<<[date_from |-> Inverted.date_from, date_to |-> Inverted.date_to,
               product_ids |-> NoneList, category_id |-> None], st>> :
               st \in {x \in TurnoverStores :
                         Cardinality(x.fails) <= 1 /\ x.stock_value}}

ProductDomain(params) ==
    <<Pred("type", "=", "product")>>
      \o (IF TruthyList(params.product_ids)
          THEN <<Pred("id", "in", params.product_ids.v)>> ELSE <<>>)
      \o (IF TruthyInt(params.category_id)
          THEN <<Pred("categ_id", "=", params.category_id.v)>> ELSE <<>>)

\* The next store call: it is issued, and raises when its index is in fails.
Attempt(cs, c, fails) == Append(cs, [c EXCEPT !.ok = (Len(cs) + 1) \notin fails])
Raises(cs, fails) == (Len(cs) + 1) \in fails

\* move.get("price_unit") or product["standard_price"]
MovePrice(move, product) ==
    IF TruthyInt(move.price_unit) THEN move.price_unit.v ELSE product.standard_price

\* cogs = sum(move["product_uom_qty"] * (price) for move in outgoing_moves)
Cogs(product) ==
    SumSeq([i \in 1..Len(product.moves) |->
              product.moves[i].product_uom_qty * MovePrice(product.moves[i], product)])

\* a / x for a float holding the integer a and a float x that is not 0; the
\* sign of a zero quotient is left out.
DivByFloat(a, x) ==
    IF a = 0 THEN FloatZero
    ELSE [TrueDivFloat(IF a < 0 THEN -a ELSE a, [x EXCEPT !.neg = FALSE])
            EXCEPT !.neg = (a < 0) # x.neg]

\* x * k for a float x and a float holding the integer k.
MulBy(x, k) ==
    IF k = 0 THEN FloatZero
    ELSE IF k < 0 THEN [MulInt(x, -k) EXCEPT !.neg = ~x.neg /\ Len(x.bits) > 0]
    ELSE MulInt(x, k)

\* 2 * x as an integer, for a float x holding a multiple of 1/2.
TwiceOf(x) ==
    IF Len(x.bits) = 0 THEN 0
    ELSE LET n == BitsValue(SubSeq(x.bits, 1, x.exp + 2))
         IN  IF x.neg THEN -n ELSE n

\* sum() of floats holding multiples of 1/2: the sum is exact.
FloatSum(xs) == TrueDiv(SumSeq([i \in 1..Len(xs) |-> TwiceOf(xs[i])]), 2)

\* How the loop body ends for one product: the calls so far, whether an
\* exception left the loop, and the avg_inventory_value found.
Step(cs, raised, value) == [calls |-> cs, raised |-> raised, value |-> value]

\* The quantity of a product at a date set by a write.
ProductWrite(product_id, field, date) ==
    Call("product.product", "write", <<>>,
         [id |-> product_id, field |-> field, to_date |-> date], TRUE)

ProductRead(product_id, field, date) ==
    Call("product.product", "read", <<>>,
         [id |-> product_id, field |-> field, to_date |-> date], TRUE)

\* avg_inventory_value = (start_value + end_value) / 2
ValuationValue(product) ==
    TrueDiv(product.stock_value_from + product.stock_value_to, 2)

\* avg_qty = (start_qty + end_qty) / 2; avg_qty * product["standard_price"]
EstimatedValue(product) ==
    MulBy(TrueDiv(product.qty_from + product.qty_to, 2), product.standard_price)

\* Method 2, the except branch: two qty_available reads, not guarded.
EstimateValue(cs, product, params, fails) ==
    LET cs4 == Attempt(cs, ProductRead(product.id, "qty_available", params.date_from), fails)
        cs5 == Attempt(cs4, ProductRead(product.id, "qty_available", params.date_to), fails)
    IN  IF Raises(cs, fails) THEN Step(cs4, TRUE, FloatZero)
        ELSE IF Raises(cs4, fails) THEN Step(cs5, TRUE, FloatZero)
        ELSE Step(cs5, FALSE, EstimatedValue(product))

\* The loop body with `except KeyError` around Method 1: a valuation read
\* that raises leaves the loop.
TurnoverOfProductKeyError(cs, product, params, st) ==
    LET moves == Call("stock.move", "search_read",
                      <<Pred("product_id", "=", product.id)>>
                        \o PeriodDomain("date", params)
                        \o <<Pred("location_dest_id.usage", "=", "customer")>>,
                      NoVals, TRUE)
        cs1 == Attempt(cs, moves, st.fails)
        cs2 == Attempt(cs1, ProductRead(product.id, "stock_value", params.date_from), st.fails)
        cs3 == Attempt(cs2, ProductRead(product.id, "stock_value", params.date_to), st.fails)
    IN  IF Raises(cs, st.fails) THEN Step(cs1, TRUE, FloatZero)
        ELSE IF Raises(cs1, st.fails) THEN Step(cs2, TRUE, FloatZero)
        ELSE IF Raises(cs2, st.fails) THEN Step(cs3, TRUE, FloatZero)
        ELSE IF ~st.stock_value THEN EstimateValue(cs3, product, params, st.fails)
        ELSE Step(cs3, FALSE, ValuationValue(product))

\* The loop body for one product up to its avg_inventory_value: the
\* stock.move search, then Method 1 (two stock_value reads) inside try,
\* Method 2 on any exception of it.
TurnoverOfProduct(cs, product, params, st) ==
    LET moves == Call("stock.move", "search_read",
                      <<Pred("product_id", "=", product.id)>>
                        \o PeriodDomain("date", params)
                        \o <<Pred("location_dest_id.usage", "=", "customer")>>,
                      NoVals, TRUE)
        cs1 == Attempt(cs, moves, st.fails)
        cs2 == Attempt(cs1, ProductRead(product.id, "stock_value", params.date_from), st.fails)
        cs3 == Attempt(cs2, ProductRead(product.id, "stock_value", params.date_to), st.fails)
    IN  IF Raises(cs, st.fails) THEN Step(cs1, TRUE, FloatZero)
        ELSE IF Raises(cs1, st.fails) THEN EstimateValue(cs2, product, params, st.fails)
        ELSE IF Raises(cs2, st.fails) THEN EstimateValue(cs3, product, params, st.fails)
        ELSE IF ~st.stock_value THEN EstimateValue(cs3, product, params, st.fails)
        ELSE Step(cs3, FALSE, ValuationValue(product))

\* days_in_period = (date_to - date_from).days + 1
DaysInPeriod(params) == ToOrdinal(params.date_to) - ToOrdinal(params.date_from) + 1

\* turnover_ratio = 0; if avg_inventory_value > 0: turnover_ratio = cogs / it
TurnoverRatio(cogs, value) ==
    IF FloatPositive(value) THEN DivByFloat(cogs, value) ELSE FloatZero

\* days_inventory = 0; inside `if avg_inventory_value > 0`:
\* if turnover_ratio > 0: days_inventory = days_in_period / turnover_ratio
DaysInventory(days, value, ratio) ==
    IF FloatPositive(value) /\ FloatPositive(ratio) THEN DivByFloat(days, ratio)
    ELSE FloatZero

\* product_turnover[product_id], with its id as the products list gives it.
TurnoverEntry(product, value, params) ==
    LET ratio == TurnoverRatio(Cogs(product), value)
    IN  [id |-> product.id,
         cogs |-> Cogs(product),
         avg_inventory_value |-> value,
         turnover_ratio |-> ratio,
         days_inventory |-> DaysInventory(DaysInPeriod(params), value, ratio)]

\* The loop over the products from the i-th on; entries collects the
\* product_turnover items in insertion order.
RECURSIVE TurnoverLoop(_, _, _, _, _)
TurnoverLoop(cs, entries, i, params, st) ==
    IF i > Len(st.products) THEN Step(cs, FALSE, entries)
    ELSE LET one == TurnoverOfProduct(cs, st.products[i], params, st)
         IN  IF one.raised THEN Step(one.calls, TRUE, entries)
             ELSE TurnoverLoop(one.calls,
                               Append(entries,
                                      TurnoverEntry(st.products[i], one.value, params)),
                               i + 1, params, st)

\* key=lambda x: x[1]["turnover_ratio"]
ByTurnoverRatio(entries) == [i \in 1..Len(entries) |-> entries[i].turnover_ratio]

\* The overall ratio from the loop's last cogs and avg_inventory_value.
OverallOfLast(entries, cogs, value) ==
    TurnoverRatio(entries[Len(entries)].cogs,
                  entries[Len(entries)].avg_inventory_value)

\* overall_turnover, from the totals like a product's ratio from its own.
OverallTurnover(entries, cogs, value) == TurnoverRatio(cogs, value)

\* The summary of the analysis over the product_turnover entries.
TurnoverSummary(entries, params) ==
    LET total_cogs == SumSeq([i \in 1..Len(entries) |-> entries[i].cogs])
        total_avg_value ==
            FloatSum([i \in 1..Len(entries) |-> entries[i].avg_inventory_value])
        overall_turnover == OverallTurnover(entries, total_cogs, total_avg_value)
    IN  [product_count |-> Len(entries),
         total_cogs |-> total_cogs,
         total_avg_inventory_value |-> total_avg_value,
         overall_turnover_ratio |-> overall_turnover,
         overall_days_inventory |->
             DaysInventory(DaysInPeriod(params), total_avg_value, overall_turnover)]

analyze_inventory_turnover_body(params, st) ==
    IF ~PeriodOK(params)
    THEN Run(<<>>, Failure("Invalid date format. Use YYYY-MM-DD."))
    ELSE
      LET r0 == Issue(<<Call("product.product", "search_read", ProductDomain(params),
                             NoVals, TRUE)>>, st.fails)
          loop == TurnoverLoop(r0.calls, <<>>, 1, params, st)
      IN  IF r0.outcome.kind = "raised" THEN r0
          ELSE IF NoRecords(st.products)
          THEN Run(r0.calls, Failure("No products found with the specified criteria"))
          ELSE IF loop.raised THEN Run(loop.calls, Raised("store error"))
          ELSE Run(loop.calls,
                   Success([period |-> [from |-> params.date_from, to |-> params.date_to,
                                        days |-> DaysInPeriod(params)],
                            summary |-> TurnoverSummary(loop.value, params),
                            products |-> SortedDescending(loop.value,
                                                          ByTurnoverRatio(loop.value))]))

analyze_inventory_turnover(params, st) ==
    TryExcept(analyze_inventory_turnover_body(params, st))

---------------------------------------------------------------------------
(* tools_accountings.analyze_financial_ratios                              *)

RatioNames == {"liquidity", "profitability", "debt", "efficiency"}

\* List[str] of requested ratios: known names and one that is not known.
RatioRequests == SeqsOf(RatioNames \cup {"solvency"}, 0, MaxRatios)

\* The balance sums of the seven account.move.line searches, whole units.
Ledgers ==
    {[assets |-> 2000, current_assets |-> 400, liabilities |-> -500,
      current_liabilities |-> -200, equity |-> 1000, income |-> 1000,
      expenses |-> 400],
     [assets |-> 0, current_assets |-> 0, liabilities |-> 0,
      current_liabilities |-> 0, equity |-> 0, income |-> 0, expenses |-> 0],
     [assets |-> -300, current_assets |-> 100, liabilities |-> 700,
      current_liabilities |-> 200, equity |-> -1000, income |-> -1000,
      expenses |-> -400],
     [assets |-> 0, current_assets |-> 400, liabilities |-> -500,
      current_liabilities |-> 0, equity |-> 0, income |-> 0, expenses |-> 400],
     [assets |-> 0, current_assets |-> 400, liabilities |-> -500,
      current_liabilities |-> -200, equity |-> 1000, income |-> 1000,
      expenses |-> 400],
     [assets |-> 900, current_assets |-> 400, liabilities |-> 700,
      current_liabilities |-> -300, equity |-> 0, income |-> 0,
      expenses |-> 7]}

PlainLedger == CHOOSE l \in Ledgers : l.assets = 2000

RatioCases ==
    {<<[date_from |-> w.date_from, date_to |-> w.date_to, ratios |-> rs],
       [fails |-> {}, ledger |-> PlainLedger]>> : w \in Periods, rs \in RatioRequests}
      \cup {<<[date_from |-> February.date_from, date_to |-> February.date_to,
               ratios |-> rs],
              [fails |-> f, ledger |-> l]>> :
               rs \in RatioRequests, f \in OneFailure(7), l \in Ledgers}
      \cup {<<[date_from |-> Inverted.date_from, date_to |-> Inverted.date_to,
               ratios |-> <<"profitability">>],
              [fails |-> f, ledger |-> l]>> : f \in OneFailure(7), l \in Ledgers}

\* `name in requested_ratios` on the list.
Requested(name, requested_ratios) ==
    \E i \in 1..Len(requested_ratios) : requested_ratios[i] = name

\* abs() left out: the signed sum itself.
Signed(x) == x

Abs(x) == IF x < 0 THEN -x ELSE x

\* A ratio computed without its guard.
RatioUnguarded(num, den) == TrueDiv(num, den)

\* ratio = 0; if den != 0: ratio = num / den.
Ratio(num, den) == IF den # 0 THEN TrueDiv(num, den) ELSE FloatZero

\* A percentage that is not scaled: num / den.
PercentUnscaled(num, den) == IF den # 0 THEN TrueDiv(num, den) ELSE FloatZero

\* ratio = 0; if den != 0: ratio = (num / den) * 100.
Percent(num, den) == IF den # 0 THEN MulInt(TrueDiv(num, den), 100) ELSE FloatZero

\* One account.move.line search per balance: the internal group, an
\* account type for the two "current" balances, the period, posted moves.
BalanceSearch(group, type, params) ==
    Call("account.move.line", "search_read",
         <<Pred("account_id.user_type_id.internal_group", "=", group)>>
           \o (IF type # "" THEN <<Pred("account_id.user_type_id.type", "=", type)>>
               ELSE <<>>)
           \o PeriodDomain("date", params)
           \o <<Pred("parent_state", "=", "posted")>>,
         NoVals, TRUE)

RatioEntry(name, l) ==
    LET net_income == l.income - l.expenses
    IN  CASE name = "liquidity" ->
               [current_ratio |-> Ratio(l.current_assets, Abs(l.current_liabilities)),
                current_assets |-> l.current_assets,
                current_liabilities |-> Abs(l.current_liabilities)]
          [] name = "profitability" ->
               [return_on_assets |-> Percent(net_income, l.assets),
                return_on_equity |-> Percent(net_income, l.equity),
                net_profit_margin |-> Percent(net_income, l.income),
                net_income |-> net_income,
                total_income |-> l.income]
          [] name = "debt" ->
               [debt_ratio |-> Percent(Abs(l.liabilities), l.assets),
                leverage_ratio |-> Ratio(Abs(l.liabilities), l.equity),
                total_liabilities |-> Abs(l.liabilities),
                total_equity |-> l.equity]
          [] name = "efficiency" ->
               [asset_turnover |-> Ratio(l.income, l.assets)]

\* The float-valued fields of a category's entry.
RatioFields(name) ==
    CASE name = "liquidity" -> {"current_ratio"}
      [] name = "profitability" -> {"return_on_assets", "return_on_equity",
                                    "net_profit_margin"}
      [] name = "debt" -> {"debt_ratio", "leverage_ratio"}
      [] name = "efficiency" -> {"asset_turnover"}

\* Computing the ratios raised ZeroDivisionError.
RatiosRaise(ratios) ==
    \E name \in DOMAIN ratios :
        \E field \in RatioFields(name) : ratios[name][field] = ZeroDivisionError

\* Every category computed, whatever was requested.
RatiosAll(requested_ratios, l) ==
    [name \in RatioNames |-> RatioEntry(name, l)]

\* The ratios dict: one key per `if "<name>" in requested_ratios` that holds.
Ratios(requested_ratios, l) ==
    [name \in {n \in RatioNames : Requested(n, requested_ratios)} |-> RatioEntry(name, l)]

analyze_financial_ratios_body(params, st) ==
    IF ~PeriodOK(params)
    THEN Run(<<>>, Failure("Formato de fecha invalido. Use YYYY-MM-DD."))
    ELSE
      LET l == st.ledger
          r == Issue(<<BalanceSearch("asset", "", params),
                       BalanceSearch("asset", "liquidity", params),
                       BalanceSearch("liability", "", params),
                       BalanceSearch("liability", "payable", params),
                       BalanceSearch("equity", "", params),
                       BalanceSearch("income", "", params),
                       BalanceSearch("expense", "", params)>>, st.fails)
      IN  IF r.outcome.kind = "raised" THEN r
          ELSE IF RatiosRaise(Ratios(params.ratios, l))
          THEN Run(r.calls, Raised("float division by zero"))
          ELSE Run(r.calls,
                   Success([period |-> [from |-> params.date_from, to |-> params.date_to],
                            summary |-> [total_assets |-> l.assets,
                                         total_liabilities |-> Abs(l.liabilities),
                                         total_equity |-> l.equity,
                                         total_income |-> l.income,
                                         total_expenses |-> Abs(l.expenses),
                                         net_income |-> l.income - l.expenses],
                            ratios |-> Ratios(params.ratios, l)]))

analyze_financial_ratios(params, st) ==
    TryExcept(analyze_financial_ratios_body(params, st))

---------------------------------------------------------------------------
(* The invocations modelled for the three searches: every filter against   *)
(* a quiet store, and two filters against every store.                     *)

QuietSearchStore == [fails |-> {}, records |-> <<[id |-> 1]>>, total_count |-> 1]

PlainOrderFilters ==
    {f \in OrderFilters :
        \/ f.partner_id = None /\ f.date_from = NoneDate /\ f.date_to = NoneDate
             /\ f.state = NoneStr
        \/ f.partner_id = Some(7) /\ f.date_from = Some(Ymd(2024, 2, 1))
             /\ f.date_to = Some(Ymd(2024, 2, 29)) /\ f.state = Some("posted")
        \/ f.partner_id = None /\ f.date_from = Some(Ymd(2024, 2, 29))
             /\ f.date_to = Some(Ymd(2024, 2, 1)) /\ f.state = NoneStr}

SearchCases ==
    (OrderFilters \X {QuietSearchStore}) \cup (PlainOrderFilters \X SearchStores)

PlainJournalFilters ==
    {f \in JournalFilters :
        \/ f.journal_id = None /\ f.date_from = NoneDate /\ f.date_to = NoneDate
             /\ f.state = NoneStr
        \/ f.journal_id = Some(7) /\ f.date_from = Some(Ymd(2024, 2, 1))
             /\ f.date_to = Some(Ymd(2024, 2, 29)) /\ f.state = Some("posted")
        \/ f.journal_id = None /\ f.date_from = Some(Ymd(2024, 2, 29))
             /\ f.date_to = Some(Ymd(2024, 2, 1)) /\ f.state = NoneStr}

JournalSearchCases ==
    (JournalFilters \X {[fails |-> {}, records |-> <<[line_ids |-> <<11, 12>>]>>,
                         total_count |-> 1]})
      \cup (PlainJournalFilters \X JournalStores)

---------------------------------------------------------------------------
(* The state machine: the server is idle, a tool is invoked and runs to    *)
(* completion, its result is returned.  Nothing survives a request.        *)

NoOutcome == [kind |-> "none", error |-> "", result |-> <<>>]

Init ==
    /\ op = "idle"
    /\ args = <<>>
    /\ store = <<>>
    /\ calls = <<>>
    /\ outcome = NoOutcome

SearchSalesOrders ==
    /\ op = "idle"
    /\ \E c \in SearchCases :
         /\ op' = "search_sales_orders"
         /\ args' = c[1]
         /\ store' = c[2]
         /\ calls' = search_sales_orders(c[1], c[2]).calls
         /\ outcome' = search_sales_orders(c[1], c[2]).outcome

SearchPurchaseOrders ==
    /\ op = "idle"
    /\ \E c \in SearchCases :
         /\ op' = "search_purchase_orders"
         /\ args' = c[1]
         /\ store' = c[2]
         /\ calls' = search_purchase_orders(c[1], c[2]).calls
         /\ outcome' = search_purchase_orders(c[1], c[2]).outcome

SearchJournalEntries ==
    /\ op = "idle"
    /\ \E c \in JournalSearchCases :
         /\ op' = "search_journal_entries"
         /\ args' = c[1]
         /\ store' = c[2]
         /\ calls' = search_journal_entries(c[1], c[2]).calls
         /\ outcome' = search_journal_entries(c[1], c[2]).outcome

CreateSalesOrder ==
    /\ op = "idle"
    /\ \E c \in OrderCreates \X CreateStores :
         /\ op' = "create_sales_order"
         /\ args' = c[1]
         /\ store' = c[2]
         /\ calls' = create_sales_order(c[1], c[2]).calls
         /\ outcome' = create_sales_order(c[1], c[2]).outcome

CreatePurchaseOrder ==
    /\ op = "idle"
    /\ \E c \in OrderCreates \X CreateStores :
         /\ op' = "create_purchase_order"
         /\ args' = c[1]
         /\ store' = c[2]
         /\ calls' = create_purchase_order(c[1], c[2]).calls
         /\ outcome' = create_purchase_order(c[1], c[2]).outcome

CreateJournalEntry ==
    /\ op = "idle"
    /\ \E c \in JournalEntries \X CreateStores :
         /\ op' = "create_journal_entry"
         /\ args' = c[1]
         /\ store' = c[2]
         /\ calls' = create_journal_entry(c[1], c[2]).calls
         /\ outcome' = create_journal_entry(c[1], c[2]).outcome

CreateInventoryAdjustment ==
    /\ op = "idle"
    /\ \E c \in Adjustments \X AdjustmentStores :
         /\ op' = "create_inventory_adjustment"
         /\ args' = c[1]
         /\ store' = c[2]
         /\ calls' = create_inventory_adjustment(c[1], c[2]).calls
         /\ outcome' = create_inventory_adjustment(c[1], c[2]).outcome

CheckProductAvailability ==
    /\ op = "idle"
    /\ \E c \in AvailabilityInputs \X AvailabilityStores :
         /\ op' = "check_product_availability"
         /\ args' = c[1]
         /\ store' = c[2]
         /\ calls' = check_product_availability(c[1], c[2]).calls
         /\ outcome' = check_product_availability(c[1], c[2]).outcome

AnalyzeSalesPerformance ==
    /\ op = "idle"
    /\ \E c \in SalesCases :
         /\ op' = "analyze_sales_performance"
         /\ args' = c[1]
         /\ store' = c[2]
         /\ calls' = analyze_sales_performance(c[1], c[2]).calls
         /\ outcome' = analyze_sales_performance(c[1], c[2]).outcome

AnalyzeSupplierPerformance ==
    /\ op = "idle"
    /\ \E c \in SupplierCases :
         /\ op' = "analyze_supplier_performance"
         /\ args' = c[1]
         /\ store' = c[2]
         /\ calls' = analyze_supplier_performance(c[1], c[2]).calls
         /\ outcome' = analyze_supplier_performance(c[1], c[2]).outcome

AnalyzeInventoryTurnover ==
    /\ op = "idle"
    /\ \E c \in TurnoverCases :
         /\ op' = "analyze_inventory_turnover"
         /\ args' = c[1]
         /\ store' = c[2]
         /\ calls' = analyze_inventory_turnover(c[1], c[2]).calls
         /\ outcome' = analyze_inventory_turnover(c[1], c[2]).outcome

AnalyzeFinancialRatios ==
    /\ op = "idle"
    /\ \E c \in RatioCases :
         /\ op' = "analyze_financial_ratios"
         /\ args' = c[1]
         /\ store' = c[2]
         /\ calls' = analyze_financial_ratios(c[1], c[2]).calls
         /\ outcome' = analyze_financial_ratios(c[1], c[2]).outcome

\* The result has been handed to the caller.
Return ==
    /\ op # "idle"
    /\ op' = "idle"
    /\ args' = <<>>
    /\ store' = <<>>
    /\ calls' = <<>>
    /\ outcome' = NoOutcome

Next ==
    \/ SearchSalesOrders
    \/ SearchPurchaseOrders
    \/ SearchJournalEntries
    \/ CreateSalesOrder
    \/ CreatePurchaseOrder
    \/ CreateJournalEntry
    \/ CreateInventoryAdjustment
    \/ CheckProductAvailability
    \/ AnalyzeSalesPerformance
    \/ AnalyzeSupplierPerformance
    \/ AnalyzeInventoryTurnover
    \/ AnalyzeFinancialRatios
    \/ Return

Spec == Init /\ [][Next]_vars

---------------------------------------------------------------------------
(* Properties                                                              *)

SearchOps == {"search_sales_orders", "search_purchase_orders", "search_journal_entries"}

OrderCreateOps == {"create_sales_order", "create_purchase_order"}

AnalyzeOps == {"analyze_sales_performance", "analyze_supplier_performance",
               "analyze_inventory_turnover", "analyze_financial_ratios"}

\* An optional date was supplied (not None, not "") and is not YYYY-MM-DD.
Malformed(d) == d.some /\ d.v.kind # "empty" /\ ~ParseOK(d.v)

\* Some store call of the invocation raised.
SomeCallRaised == \E i \in 1..Len(calls) : ~calls[i].ok

\* A call of the given model and method was issued.
Issued(model, method) ==
    \E i \in 1..Len(calls) : calls[i].model = model /\ calls[i].method = method

\* C1: every invocation of every tool ends with {success: true, result} or
\* {success: false, error}, whichever store call raises; no exception of
\* the store leaves the tool.
C1_ResultShape ==
    op # "idle" =>
        /\ outcome.kind \in {"success", "failure"}
        /\ outcome.kind = "failure" => outcome.error # ""

\* A store call raised in the last of the seven balance searches and the
\* tool returned a failure.
C1_Witness ==
    /\ op = "analyze_financial_ratios"
    /\ Len(calls) = 7
    /\ ~calls[7].ok
    /\ outcome.kind = "failure"

\* The invocation was given a date that is not YYYY-MM-DD.
MalformedDateSupplied ==
    \/ op \in SearchOps /\ (Malformed(args.date_from) \/ Malformed(args.date_to))
    \/ op \in OrderCreateOps /\ Malformed(args.date_order)
    \/ op \in {"create_journal_entry", "create_inventory_adjustment"}
         /\ Malformed(args.date)
    \/ op \in AnalyzeOps /\ (~ParseOK(args.date_from) \/ ~ParseOK(args.date_to))

\* C2: an operation given a date string that does not parse as YYYY-MM-DD
\* returns a failure and has made no store call.
C2_MalformedDateNoStoreCall ==
    MalformedDateSupplied => outcome.kind = "failure" /\ Len(calls) = 0

\* C3: create_journal_entry fails without any store call whenever the
\* rounded totals differ, and issues the account.move create only when they
\* are equal and the date, if one is given, is well formed.
C3_BalanceBeforeCreate ==
    op = "create_journal_entry" =>
        /\ Round2(total_debit(args)) # Round2(total_credit(args))
             => outcome.kind = "failure" /\ Len(calls) = 0
        /\ Issued("account.move", "create")
             => /\ Round2(total_debit(args)) = Round2(total_credit(args))
                /\ ~Malformed(args.date)

\* An unbalanced entry was refused although the store would have answered.
C3_Witness ==
    /\ op = "create_journal_entry"
    /\ Round2(total_debit(args)) # Round2(total_credit(args))
    /\ ~Malformed(args.date)
    /\ store.fails = {} /\ ~store.readEmpty
    /\ outcome.kind = "failure"

\* Debits [100.00, 0] and credits [0, 100.005].
C4_Lines == <<[debit |-> 100000, credit |-> 0], [debit |-> 0, credit |-> 100005]>>

\* C4 as stated: the entry with debits [100.00, 0] and credits [0, 100.005]
\* is rejected, the credit total rounding to 100.01.
C4_Rejected ==
    (op = "create_journal_entry" /\ args.lines = C4_Lines) =>
        /\ Round2(total_credit(args)) = 10001
        /\ outcome.kind = "failure"
        /\ Len(calls) = 0

\* C4 amended: for that entry both totals round to 100.00, the balance
\* check passes, and the create is issued unless the date is malformed; the
\* entry is created when the store answers.
C4_Accepted ==
    (op = "create_journal_entry" /\ args.lines = C4_Lines) =>
        /\ Round2(total_debit(args)) = 10000
        /\ Round2(total_credit(args)) = 10000
        /\ ~Malformed(args.date) =>
             /\ Len(calls) >= 1
             /\ calls[1].model = "account.move" /\ calls[1].method = "create"
        /\ (~Malformed(args.date) /\ store.fails = {} /\ ~store.readEmpty)
             => outcome.kind = "success"

C4_Witness ==
    /\ op = "create_journal_entry"
    /\ args.lines = C4_Lines
    /\ outcome.kind = "success"

\* A debit total of 100.004 against a credit total of 100.006.
C5_Case ==
    /\ op = "create_journal_entry"
    /\ total_debit(args) = 100004
    /\ total_credit(args) = 100006

\* C5 as stated: the entry is accepted, the create call is issued.
C5_Accepted ==
    (C5_Case /\ ~Malformed(args.date)) => Issued("account.move", "create")

\* C5 amended: the totals round to 100.00 and 100.01, so the entry is
\* rejected and no store call is made.
C5_Rejected ==
    C5_Case =>
        /\ Round2(total_debit(args)) = 10000
        /\ Round2(total_credit(args)) = 10001
        /\ outcome.kind = "failure"
        /\ Len(calls) = 0

C5_Witness ==
    /\ C5_Case
    /\ args.date = NoneDate
    /\ store.fails = {}
    /\ outcome.kind = "failure"

\* An optional date of a filter is well formed: not given, or YYYY-MM-DD.
WellFormedOpt(d) == ~d.some \/ ParseOK(d.v)

\* Number of predicates of the domain on the field with the operator.
PredCount(domain, field, operator) ==
    Cardinality({i \in 1..Len(domain) :
                    domain[i][1] = field /\ domain[i][2] = operator})

\* Predicates expected of an optional field: one when present, else none.
Expect(present) == IF present THEN 1 ELSE 0

\* C6: with well-formed dates the domain sent to the store holds no
\* predicate for an optional field that is None and exactly one for each
\* optional field that is present, the id 0 and the empty string included;
\* a present list of ids gives exactly one `in` predicate, the empty list
\* included.
C6_OnePredicatePerPresentField ==
    /\ (op \in {"search_sales_orders", "search_purchase_orders"}
          /\ WellFormedOpt(args.date_from) /\ WellFormedOpt(args.date_to)) =>
         LET domain == calls[1].domain
         IN  /\ PredCount(domain, "partner_id", "=") = Expect(args.partner_id.some)
             /\ PredCount(domain, "date_order", ">=") = Expect(args.date_from.some)
             /\ PredCount(domain, "date_order", "<=") = Expect(args.date_to.some)
             /\ PredCount(domain, "state", "=") = Expect(args.state.some)
    /\ (op = "search_journal_entries"
          /\ WellFormedOpt(args.date_from) /\ WellFormedOpt(args.date_to)) =>
         LET domain == calls[1].domain
         IN  /\ PredCount(domain, "date", ">=") = Expect(args.date_from.some)
             /\ PredCount(domain, "date", "<=") = Expect(args.date_to.some)
             /\ PredCount(domain, "journal_id", "=") = Expect(args.journal_id.some)
             /\ PredCount(domain, "state", "=") = Expect(args.state.some)
    /\ (op = "analyze_supplier_performance" /\ PeriodOK(args)) =>
         PredCount(calls[1].domain, "partner_id", "in") = Expect(args.supplier_ids.some)
    /\ (op = "analyze_inventory_turnover" /\ PeriodOK(args)) =>
         LET domain == calls[1].domain
         IN  /\ PredCount(domain, "id", "in") = Expect(args.product_ids.some)
             /\ PredCount(domain, "categ_id", "=") = Expect(args.category_id.some)

\* The previous period reported by analyze_sales_performance.
ReportedPrevious == outcome.result.summary.previous_period

\* C7: for every window with date_from <= date_to, the previous period that
\* analyze_sales_performance queries and reports ends the day before
\* date_from and starts (date_to - date_from) days before its own end: it
\* has as many days as the window and shares no day with it.
C7_PreviousWindow ==
    (op = "analyze_sales_performance" /\ PeriodOK(args)
       /\ ToOrdinal(args.date_from) <= ToOrdinal(args.date_to)) =>
        LET from == ToOrdinal(args.date_from)
            to == ToOrdinal(args.date_to)
            Preceding(prior_from, prior_to) ==
                /\ ParseOK(prior_from) /\ ParseOK(prior_to)
                /\ ToOrdinal(prior_to) = from - 1
                /\ ToOrdinal(prior_from) = ToOrdinal(prior_to) - (to - from)
                /\ ToOrdinal(prior_to) - ToOrdinal(prior_from) + 1 = to - from + 1
                /\ ToOrdinal(prior_to) < from
        IN  /\ Len(calls) >= 2 =>
                 /\ calls[2].domain[1][1] = "date_order"
                 /\ calls[2].domain[1][2] = ">="
                 /\ calls[2].domain[2][1] = "date_order"
                 /\ calls[2].domain[2][2] = "<="
                 /\ Preceding(calls[2].domain[1][3], calls[2].domain[2][3])
            /\ outcome.kind = "success" =>
                 /\ Preceding(ReportedPrevious.from, ReportedPrevious.to)
                 /\ ReportedPrevious.from = calls[2].domain[1][3]
                 /\ ReportedPrevious.to = calls[2].domain[2][3]

\* A 61-day window over a leap February whose previous period reaches back
\* across the end of the year.
C7_Witness ==
    /\ op = "analyze_sales_performance"
    /\ args.date_from = Ymd(2024, 1, 1)
    /\ args.date_to = Ymd(2024, 3, 1)
    /\ outcome.kind = "success"
    /\ ReportedPrevious.from = Ymd(2023, 11, 1)
    /\ ReportedPrevious.to = Ymd(2023, 12, 31)

\* analyze_sales_performance answered for 2024-02-01 to 2024-02-29.
C8_Case ==
    /\ op = "analyze_sales_performance"
    /\ args.date_from = Ymd(2024, 2, 1)
    /\ args.date_to = Ymd(2024, 2, 29)
    /\ outcome.kind = "success"

\* C8 as stated: for 2024-02-01 to 2024-02-29 the previous period reported
\* is 2023-12-04 to 2024-01-31.
C8_PreviousFromDecember ==
    C8_Case =>
        /\ ReportedPrevious.from = Ymd(2023, 12, 4)
        /\ ReportedPrevious.to = Ymd(2024, 1, 31)

\* C8 amended: for 2024-02-01 to 2024-02-29 the previous period reported is
\* 2024-01-03 to 2024-01-31, which is 29 days long.
C8_PreviousFromJanuary ==
    C8_Case =>
        /\ ReportedPrevious.from = Ymd(2024, 1, 3)
        /\ ReportedPrevious.to = Ymd(2024, 1, 31)
        /\ ToOrdinal(ReportedPrevious.to) - ToOrdinal(ReportedPrevious.from) + 1 = 29
        /\ ToOrdinal(args.date_to) - ToOrdinal(args.date_from) + 1 = 29

C8_Witness ==
    /\ C8_Case
    /\ store.sales_data # <<>>
    /\ ReportedPrevious.to = Ymd(2024, 1, 31)

\* C9: percent_change is (current - previous) / previous * 100 whenever the
\* previous total is not 0, and 0 when it is 0; the totals may be negative.
C9_PercentChange ==
    (op = "analyze_sales_performance" /\ outcome.kind = "success") =>
        LET current == outcome.result.summary.total_amount
            previous == ReportedPrevious.total_amount
            percent_change == outcome.result.summary.percent_change
        IN  /\ previous # 0 => percent_change = PercentOf(current, previous)
            /\ previous = 0 => percent_change = 0

\* The names of args.ratios that are ratio categories.
RequestedCategories ==
    {name \in RatioNames : \E i \in 1..Len(args.ratios) : args.ratios[i] = name}

\* C10: the keys of result.ratios are exactly the requested names among
\* liquidity, profitability, debt and efficiency; a name that is not one of
\* them gives no entry and does not make the analysis fail.
C10_OnlyRequested ==
    op = "analyze_financial_ratios" =>
        /\ outcome.kind = "success" =>
             DOMAIN outcome.result.ratios = RequestedCategories
        /\ (PeriodOK(args) /\ store.fails = {}) => outcome.kind = "success"

\* An unknown name and debt were requested; only debt was computed.
C10_Witness ==
    /\ op = "analyze_financial_ratios"
    /\ args.ratios = <<"solvency", "debt">>
    /\ outcome.kind = "success"
    /\ DOMAIN outcome.result.ratios = {"debt"}

\* The summary and the ratios of a successful analyze_financial_ratios.
RatioSummary == outcome.result.summary

ReportedRatios == outcome.result.ratios

\* analyze_financial_ratios succeeded and reports the named category.
Reports(name) ==
    /\ op = "analyze_financial_ratios"
    /\ outcome.kind = "success"
    /\ name \in DOMAIN ReportedRatios

\* The ledger of the example: income 1000, expenses 400, assets 2000,
\* equity 1000.
C11_Example ==
    /\ store.ledger.income = 1000
    /\ store.ledger.expenses = 400
    /\ store.ledger.assets = 2000
    /\ store.ledger.equity = 1000

\* C11: profitability reports net_income = income - expenses and, over a
\* non-zero denominator, return_on_assets = net_income / total_assets * 100,
\* return_on_equity = net_income / total_equity * 100 and net_profit_margin
\* = net_income / total_income * 100; for income 1000, expenses 400, assets
\* 2000 and equity 1000 these are 600, 30, 60 and 60.
C11_Profitability ==
    Reports("profitability") =>
        LET p == ReportedRatios["profitability"]
        IN  /\ p.net_income = store.ledger.income - store.ledger.expenses
            /\ p.total_income = RatioSummary.total_income
            /\ RatioSummary.total_assets # 0 =>
                 p.return_on_assets
                   = MulInt(TrueDiv(p.net_income, RatioSummary.total_assets), 100)
            /\ RatioSummary.total_equity # 0 =>
                 p.return_on_equity
                   = MulInt(TrueDiv(p.net_income, RatioSummary.total_equity), 100)
            /\ RatioSummary.total_income # 0 =>
                 p.net_profit_margin
                   = MulInt(TrueDiv(p.net_income, RatioSummary.total_income), 100)
            /\ C11_Example =>
                 /\ p.net_income = 600
                 /\ p.return_on_assets = FloatOf(30)
                 /\ p.return_on_equity = FloatOf(60)
                 /\ p.net_profit_margin = FloatOf(60)

\* The example ledger analysed for ["profitability"] alone.
C11_Witness ==
    /\ Reports("profitability")
    /\ args.ratios = <<"profitability">>
    /\ C11_Example
    /\ ReportedRatios["profitability"].return_on_assets = FloatOf(30)

\* C12: whenever the denominator of a ratio is 0 that ratio is reported as
\* 0, and the analysis succeeds whatever the balance totals are.
C12_ZeroDenominator ==
    (op = "analyze_financial_ratios" /\ PeriodOK(args) /\ store.fails = {}) =>
        /\ outcome.kind = "success"
        /\ LET l == store.ledger
               r == ReportedRatios
               Reported(name) == name \in DOMAIN r
           IN  /\ (Reported("liquidity") /\ l.current_liabilities = 0) =>
                    r["liquidity"].current_ratio = FloatZero
               /\ (Reported("profitability") /\ l.assets = 0) =>
                    r["profitability"].return_on_assets = FloatZero
               /\ (Reported("profitability") /\ l.equity = 0) =>
                    r["profitability"].return_on_equity = FloatZero
               /\ (Reported("profitability") /\ l.income = 0) =>
                    r["profitability"].net_profit_margin = FloatZero
               /\ (Reported("debt") /\ l.assets = 0) =>
                    r["debt"].debt_ratio = FloatZero
               /\ (Reported("debt") /\ l.equity = 0) =>
                    r["debt"].leverage_ratio = FloatZero
               /\ (Reported("efficiency") /\ l.assets = 0) =>
                    r["efficiency"].asset_turnover = FloatZero

\* Assets are 0 while income and expenses are not, and the efficiency and
\* profitability ratios over assets are reported as 0.
C12_Witness ==
    /\ Reports("profitability") /\ Reports("efficiency")
    /\ store.ledger.assets = 0
    /\ store.ledger.income # 0
    /\ store.ledger.expenses # 0
    /\ ReportedRatios["profitability"].return_on_assets = FloatZero
    /\ ReportedRatios["efficiency"].asset_turnover = FloatZero

\* v is the magnitude of the signed sum x.
MagnitudeOf(v, x) == v >= 0 /\ (v = x \/ v = -x)

\* C13: in every successful result summary.total_liabilities,
\* summary.total_expenses, ratios.debt.total_liabilities and
\* ratios.liquidity.current_liabilities are >= 0 and are the absolute value
\* of the signed ledger sum, whatever its sign.
C13_Magnitudes ==
    (op = "analyze_financial_ratios" /\ outcome.kind = "success") =>
        /\ MagnitudeOf(RatioSummary.total_liabilities, store.ledger.liabilities)
        /\ MagnitudeOf(RatioSummary.total_expenses, store.ledger.expenses)
        /\ "debt" \in DOMAIN ReportedRatios =>
             MagnitudeOf(ReportedRatios["debt"].total_liabilities,
                         store.ledger.liabilities)
        /\ "liquidity" \in DOMAIN ReportedRatios =>
             MagnitudeOf(ReportedRatios["liquidity"].current_liabilities,
                         store.ledger.current_liabilities)

\* Liabilities sum to a negative number and are reported as its magnitude.
C13_Witness ==
    /\ Reports("debt") /\ Reports("liquidity")
    /\ store.ledger.liabilities < 0
    /\ store.ledger.current_liabilities < 0
    /\ RatioSummary.total_liabilities = -store.ledger.liabilities
    /\ ReportedRatios["debt"].total_liabilities > 0

\* C14: in every successful result summary.net_income equals
\* summary.total_income minus summary.total_expenses of that same summary,
\* for income and expense sums of any sign.
C14_NetIncomeOfSummary ==
    (op = "analyze_financial_ratios" /\ outcome.kind = "success") =>
        RatioSummary.net_income
          = RatioSummary.total_income - RatioSummary.total_expenses

\* analyze_inventory_turnover succeeded; its products list and summary.
TurnoverDone == op = "analyze_inventory_turnover" /\ outcome.kind = "success"

TurnoverProducts == outcome.result.products

TurnoverTotals == outcome.result.summary

\* C15: per product, turnover_ratio = COGS / average inventory value and 0
\* when that value is <= 0; days_inventory = period days / turnover_ratio,
\* with period days = (date_to - date_from) in days + 1, and 0 if the ratio
\* is 0.  COGS 500 over an average value of 250 in a 30-day period gives
\* ratio 2 and days 15; an average value of 0 gives 0 for both.
C15_RatioAndDays ==
    TurnoverDone =>
        \A i \in 1..Len(TurnoverProducts) :
            LET p == TurnoverProducts[i]
                days == outcome.result.period.days
            IN  /\ days = ToOrdinal(args.date_to) - ToOrdinal(args.date_from) + 1
                /\ p.turnover_ratio
                     = IF FloatPositive(p.avg_inventory_value)
                       THEN DivByFloat(p.cogs, p.avg_inventory_value)
                       ELSE FloatZero
                /\ p.days_inventory
                     = IF p.turnover_ratio = FloatZero THEN FloatZero
                       ELSE DivByFloat(days, p.turnover_ratio)
                /\ (p.cogs = 500 /\ p.avg_inventory_value = FloatOf(250) /\ days = 30) =>
                     (p.turnover_ratio = FloatOf(2) /\ p.days_inventory = FloatOf(15))
                /\ p.avg_inventory_value = FloatZero =>
                     (p.turnover_ratio = FloatZero /\ p.days_inventory = FloatZero)

\* The price of a move, the standard cost only when the move has no price.
MovePriceIfAbsent(move, product) ==
    IF move.price_unit.some THEN move.price_unit.v ELSE product.standard_price

\* C16: a product's COGS is the sum over its outgoing moves of quantity
\* times the move's unit price, the standard cost standing in only for a
\* move that has no unit price: a unit price of 0 is used as it is.
C16_CogsAtMovePrice ==
    TurnoverDone =>
        \A i \in 1..Len(TurnoverProducts) :
            LET p == TurnoverProducts[i]
                product == store.products[p.id]
            IN  p.cogs = SumSeq([m \in 1..Len(product.moves) |->
                                   product.moves[m].product_uom_qty
                                     * MovePriceIfAbsent(product.moves[m], product)])

\* The reads of the given field issued for the product.
ReadsOf(product_id, field) ==
    {i \in 1..Len(calls) : /\ calls[i].model = "product.product"
                           /\ calls[i].method = "read"
                           /\ calls[i].vals.id = product_id
                           /\ calls[i].vals.field = field}

\* The fallback was entered for the product: a qty_available read was issued.
FellBack(product_id) == ReadsOf(product_id, "qty_available") # {}

\* The valuation path of the product raised: one of its stock_value reads
\* did, or both answered with records that carry no stock_value.
ValuationRaised(product_id) ==
    \/ \E i \in ReadsOf(product_id, "stock_value") : ~calls[i].ok
    \/ /\ Cardinality(ReadsOf(product_id, "stock_value")) = 2
       /\ ~store.stock_value

\* C17: per product the average inventory value is the mean of the stock
\* values at date_from and date_to when both valuation reads succeed; the
\* fallback (mean of qty_available at the two dates, times standard_price)
\* is used if and only if the valuation path raised; when a fallback read
\* fails the operation returns a failure and no product results.
C17_ValuationThenFallback ==
    (op = "analyze_inventory_turnover" /\ PeriodOK(args)) =>
        /\ \A k \in 1..Len(store.products) : FellBack(k) <=> ValuationRaised(k)
        /\ (\E k \in 1..Len(store.products) :
                \E i \in ReadsOf(k, "qty_available") : ~calls[i].ok)
             => (outcome.kind = "failure" /\ outcome.result = <<>>)
        /\ TurnoverDone =>
             \A i \in 1..Len(TurnoverProducts) :
                 LET p == TurnoverProducts[i]
                     product == store.products[p.id]
                 IN  p.avg_inventory_value
                       = IF FellBack(p.id)
                         THEN MulBy(TrueDiv(product.qty_from + product.qty_to, 2),
                                    product.standard_price)
                         ELSE TrueDiv(product.stock_value_from + product.stock_value_to, 2)

\* Of two products the first lost a valuation read and was estimated (6
\* units at 40), the second was valued from its stock values (200 and 300).
C17_Witness ==
    /\ TurnoverDone
    /\ Len(TurnoverProducts) = 2
    /\ FellBack(1) /\ ~FellBack(2)
    /\ \E i \in ReadsOf(1, "stock_value") : ~calls[i].ok
    /\ \E i, j \in 1..2 :
         /\ TurnoverProducts[i].id = 1
         /\ TurnoverProducts[i].avg_inventory_value = FloatOf(240)
         /\ TurnoverProducts[j].id = 2
         /\ TurnoverProducts[j].avg_inventory_value = FloatOf(250)

\* C18: total_cogs and total_avg_inventory_value are the sums over the
\* products; overall_turnover_ratio = total_cogs / total_avg_inventory_value
\* and 0 if that total is <= 0; overall_days_inventory follows from it as a
\* product's days follow from its ratio; the overall ratio is not the mean
\* of the products' ratios (800 over 250 is 3.2 where the ratios 2 and 0
\* have mean 1).
C18_OverallFromTotals ==
    TurnoverDone =>
        LET ps == TurnoverProducts
            t == TurnoverTotals
            days == outcome.result.period.days
        IN  /\ t.total_cogs = SumSeq([i \in 1..Len(ps) |-> ps[i].cogs])
            /\ t.total_avg_inventory_value
                 = FloatSum([i \in 1..Len(ps) |-> ps[i].avg_inventory_value])
            /\ t.overall_turnover_ratio
                 = IF FloatPositive(t.total_avg_inventory_value)
                   THEN DivByFloat(t.total_cogs, t.total_avg_inventory_value)
                   ELSE FloatZero
            /\ FloatPositive(t.overall_turnover_ratio) =>
                 t.overall_days_inventory = DivByFloat(days, t.overall_turnover_ratio)
            /\ t.overall_turnover_ratio = FloatZero =>
                 t.overall_days_inventory = FloatZero
            /\ \A i \in 1..Len(ps) :
                 (/\ ps[i].turnover_ratio = t.overall_turnover_ratio
                  /\ FloatPositive(ps[i].avg_inventory_value)
                       <=> FloatPositive(t.total_avg_inventory_value))
                   => ps[i].days_inventory = t.overall_days_inventory
            /\ (t.total_cogs = 800 /\ t.total_avg_inventory_value = FloatOf(250)) =>
                 t.overall_turnover_ratio = TrueDiv(16, 5)

\* Products of ratio 2 (500 over 250) and 0 (300 over 0): the overall ratio
\* is 800 / 250 and not 1.
C18_Witness ==
    /\ TurnoverDone
    /\ Len(TurnoverProducts) = 2
    /\ TurnoverProducts[1].turnover_ratio = FloatOf(2)
    /\ TurnoverProducts[2].turnover_ratio = FloatZero
    /\ TurnoverProducts[2].cogs = 300
    /\ TurnoverTotals.total_cogs = 800
    /\ TurnoverTotals.overall_turnover_ratio = TrueDiv(16, 5)
    /\ TurnoverTotals.overall_turnover_ratio # FloatOf(1)
    /\ FloatPositive(TurnoverTotals.overall_days_inventory)

\* The group key of a record's link field: the linked id, 0 for no link.
KeyOf(link) == IF link.some THEN link.v[1] ELSE 0

\* Where the key is first seen in the store's record sequence.
FirstPosition(links, key) ==
    CHOOSE i \in 1..Len(links) :
        KeyOf(links[i]) = key /\ \A j \in 1..(i - 1) : KeyOf(links[j]) # key

\* Entries i < j have measures[i] > measures[j], or equal measures and the
\* key of entry i first seen before that of entry j.
RankedBy(ids, measures, links) ==
    \A i, j \in 1..Len(ids) :
        i < j => \/ measures[i] > measures[j]
                 \/ /\ measures[i] = measures[j]
                    /\ FirstPosition(links, ids[i]) < FirstPosition(links, ids[j])

\* analyze_sales_performance succeeded and returned the named ranked list.
SalesRanked(name) ==
    /\ op = "analyze_sales_performance"
    /\ outcome.kind = "success"
    /\ "grouped_data" \in DOMAIN outcome.result
    /\ name \in DOMAIN outcome.result.grouped_data

SalesList(name) == outcome.result.grouped_data[name]

SuppliersDone == op = "analyze_supplier_performance" /\ outcome.kind = "success"

\* The field of every record, or of every entry, as a sequence.
Column(records, field) == [i \in 1..Len(records) |-> records[i][field]]

\* C19: every ranked list (products, customers and salespersons by amount,
\* suppliers by total_amount, turnover products by turnover_ratio) is in
\* non-increasing order of its measure, and entries of equal measure are in
\* the order in which their key was first seen in the store's records.
C19_RankedLists ==
    /\ SalesRanked("products") =>
         RankedBy(Column(SalesList("products"), "id"),
                  Column(SalesList("products"), "amount"),
                  Column(store.order_lines, "product_id"))
    /\ SalesRanked("customers") =>
         RankedBy(Column(SalesList("customers"), "id"),
                  Column(SalesList("customers"), "amount"),
                  Column(store.sales_data, "partner_id"))
    /\ SalesRanked("salespersons") =>
         RankedBy(Column(SalesList("salespersons"), "id"),
                  Column(SalesList("salespersons"), "amount"),
                  Column(store.sales_data, "user_id"))
    /\ SuppliersDone =>
         RankedBy(Column(outcome.result.suppliers, "id"),
                  Column(outcome.result.suppliers, "total_amount"),
                  Column(store.purchase_data, "partner_id"))
    /\ TurnoverDone =>
         \A i, j \in 1..Len(TurnoverProducts) :
             i < j =>
                 LET a == TurnoverProducts[i]
                     b == TurnoverProducts[j]
                 IN  IF a.turnover_ratio = b.turnover_ratio
                     THEN a.id < b.id
                     ELSE FloatGeq(a.turnover_ratio, b.turnover_ratio)

\* The customer seen second has the larger amount and is listed first.
C19_Witness ==
    /\ SalesRanked("customers")
    /\ Len(SalesList("customers")) = 2
    /\ SalesList("customers")[1].amount > SalesList("customers")[2].amount
    /\ KeyOf(store.sales_data[2].partner_id) = SalesList("customers")[1].id
    /\ KeyOf(store.sales_data[1].partner_id) = SalesList("customers")[2].id

\* The records of the group of key `key`.
RecordsOf(links, key) == {r \in 1..Len(links) : KeyOf(links[r]) = key}

\* The sum of amounts over the records of the group of key `key`.
SumOf(links, key, amounts) ==
    SumSeq([r \in 1..Len(links) |-> IF r \in RecordsOf(links, key) THEN amounts[r] ELSE 0])

\* The entries are one per key, the records without a link in one entry of
\* id 0 and name "Unknown".
OneGroupPerKey(entries, links) ==
    /\ \A i, j \in 1..Len(entries) : i # j => entries[i].id # entries[j].id
    /\ \A k \in 1..Len(entries) :
         /\ RecordsOf(links, entries[k].id) # {}
         /\ entries[k].id = 0 => entries[k].name = "Unknown"
    /\ (\E r \in 1..Len(links) : ~links[r].some) =>
         \/ Cardinality({k \in 1..Len(entries) : entries[k].id = 0}) = 1
         \/ Len(entries) = TopLimit

\* C20: in the groupings of analyze_sales_performance and of
\* analyze_supplier_performance the records without a group key fall into
\* exactly one group of id 0 and name "Unknown"; a group's count is the
\* number of records of its key and its amount the sum of their amounts;
\* the suppliers' order_counts add up to summary.order_count and their
\* total_amounts to summary.total_amount.
C20_Grouping ==
    /\ SalesRanked("products") =>
         LET es == SalesList("products")
             links == Column(store.order_lines, "product_id")
         IN  /\ OneGroupPerKey(es, links)
             /\ \A k \in 1..Len(es) :
                  /\ es[k].quantity
                       = SumOf(links, es[k].id, Column(store.order_lines, "product_uom_qty"))
                  /\ es[k].amount
                       = SumOf(links, es[k].id, Column(store.order_lines, "price_subtotal"))
    /\ SalesRanked("customers") =>
         LET es == SalesList("customers")
             links == Column(store.sales_data, "partner_id")
         IN  /\ OneGroupPerKey(es, links)
             /\ \A k \in 1..Len(es) :
                  /\ es[k].order_count = Cardinality(RecordsOf(links, es[k].id))
                  /\ es[k].amount
                       = SumOf(links, es[k].id, Column(store.sales_data, "amount_total"))
    /\ SalesRanked("salespersons") =>
         LET es == SalesList("salespersons")
             links == Column(store.sales_data, "user_id")
         IN  /\ OneGroupPerKey(es, links)
             /\ \A k \in 1..Len(es) :
                  /\ es[k].order_count = Cardinality(RecordsOf(links, es[k].id))
                  /\ es[k].amount
                       = SumOf(links, es[k].id, Column(store.sales_data, "amount_total"))
    /\ SuppliersDone =>
         LET es == outcome.result.suppliers
             links == Column(store.purchase_data, "partner_id")
         IN  /\ OneGroupPerKey(es, links)
             /\ \A k \in 1..Len(es) :
                  /\ es[k].order_count = Cardinality(RecordsOf(links, es[k].id))
                  /\ es[k].total_amount
                       = SumOf(links, es[k].id, Column(store.purchase_data, "amount_total"))
             /\ SumSeq(Column(es, "order_count")) = outcome.result.summary.order_count
             /\ SumSeq(Column(es, "total_amount")) = outcome.result.summary.total_amount

\* Two purchase orders without a partner make one supplier group of id 0,
\* name "Unknown", order_count 2 and total_amount 300.
C20_Witness ==
    /\ SuppliersDone
    /\ Len(store.purchase_data) = 2
    /\ \A r \in 1..2 : ~store.purchase_data[r].partner_id.some
    /\ Len(outcome.result.suppliers) = 1
    /\ outcome.result.suppliers[1].id = 0
    /\ outcome.result.suppliers[1].name = "Unknown"
    /\ outcome.result.suppliers[1].order_count = 2
    /\ outcome.result.suppliers[1].total_amount = 300
    /\ outcome.result.summary.order_count = 2


\* The group keys of the store's records.
DistinctKeys(links) == {KeyOf(links[i]) : i \in 1..Len(links)}

\* Key a comes before key b in the full ranking of the groups: its sum is
\* greater, or equal with a first seen before b.
Outranks(links, amounts, a, b) ==
    \/ SumOf(links, a, amounts) > SumOf(links, b, amounts)
    \/ /\ SumOf(links, a, amounts) = SumOf(links, b, amounts)
       /\ FirstPosition(links, a) < FirstPosition(links, b)

\* The entries are the first `size` groups of the full ranking, in order.
RankingPrefix(entries, links, amounts, size) ==
    /\ Len(entries) = size
    /\ \A p \in 1..Len(entries) :
         /\ entries[p].id \in DistinctKeys(links)
         /\ Cardinality({key \in DistinctKeys(links) :
                           Outranks(links, amounts, key, entries[p].id)}) = p - 1

\* min(number of groups, 10)
AtMostTen(links) ==
    IF Cardinality(DistinctKeys(links)) > 10 THEN 10 ELSE Cardinality(DistinctKeys(links))

\* C21: analyze_sales_performance returns for group_by=product and for
\* group_by=customer the 10 first entries of the full ranking of the groups
\* (all of them when there are at most 10); for group_by=salesperson, and
\* for the suppliers of analyze_supplier_performance, the full ranking is
\* returned, one entry per distinct key.
C21_Truncation ==
    /\ SalesRanked("products") =>
         RankingPrefix(SalesList("products"),
                       Column(store.order_lines, "product_id"),
                       Column(store.order_lines, "price_subtotal"),
                       AtMostTen(Column(store.order_lines, "product_id")))
    /\ SalesRanked("customers") =>
         RankingPrefix(SalesList("customers"),
                       Column(store.sales_data, "partner_id"),
                       Column(store.sales_data, "amount_total"),
                       AtMostTen(Column(store.sales_data, "partner_id")))
    /\ SalesRanked("salespersons") =>
         RankingPrefix(SalesList("salespersons"),
                       Column(store.sales_data, "user_id"),
                       Column(store.sales_data, "amount_total"),
                       Cardinality(DistinctKeys(Column(store.sales_data, "user_id"))))
    /\ SuppliersDone =>
         RankingPrefix(outcome.result.suppliers,
                       Column(store.purchase_data, "partner_id"),
                       Column(store.purchase_data, "amount_total"),
                       Cardinality(DistinctKeys(Column(store.purchase_data,
                                                       "partner_id"))))

\* The orders of more than ten customers, two of them of one customer:
\* ten customers are returned.
C21_Witness ==
    /\ SalesRanked("customers")
    /\ Len(store.sales_data) = MaxGroups + 1
    /\ Cardinality(DistinctKeys(Column(store.sales_data, "partner_id"))) = MaxGroups
    /\ Len(SalesList("customers")) = 10

\* C22: whenever a store call of an invocation raised, the tool returns
\* {success: false}; no tool returns {success: true} with a payload in
\* which an error marker or a substitute stands for data.
C22_FailureAborts ==
    (op # "idle" /\ SomeCallRaised) => outcome.kind = "failure"

\* The product lookup of the invocation was answered by the store.
LookupAnswered ==
    /\ op \in {"check_product_availability", "analyze_inventory_turnover"}
    /\ Len(calls) >= 1
    /\ calls[1].model = "product.product" /\ calls[1].method = "search_read"
    /\ calls[1].ok

\* C23: in check_product_availability and analyze_inventory_turnover a
\* product lookup that returns no record gives a failure with no store call
\* after the lookup; a lookup that returns a record is followed by the
\* per-product queries: the read of every requested product, and the
\* stock.move search of the first product found.
C23_EmptyLookup ==
    /\ (LookupAnswered /\ Len(store.products) = 0) =>
         /\ outcome.kind = "failure"
         /\ Len(calls) = 1
    /\ (LookupAnswered /\ Len(store.products) > 0
          /\ op = "check_product_availability") =>
         /\ Len(calls) >= 1 + Len(args.product_ids)
         /\ \A i \in 1..Len(args.product_ids) :
              /\ calls[1 + i].model = "product.product"
              /\ calls[1 + i].method = "read"
              /\ calls[1 + i].vals.id = args.product_ids[i]
    /\ (LookupAnswered /\ Len(store.products) > 0
          /\ op = "analyze_inventory_turnover") =>
         /\ Len(calls) >= 2
         /\ calls[2].model = "stock.move"
         /\ calls[2].method = "search_read"
         /\ calls[2].domain[1] = Pred("product_id", "=", store.products[1].id)

\* Two products were asked for and the lookup found none: a failure after
\* the one call.
C23_Witness ==
    /\ op = "check_product_availability"
    /\ Len(args.product_ids) = 2
    /\ LookupAnswered
    /\ Len(store.products) = 0
    /\ outcome.kind = "failure"
    /\ outcome.error = "No products found with the provided IDs"
    /\ Len(calls) = 1

\* The date_from and date_to texts of the invocation.
DateFromOf == IF op \in SearchOps THEN args.date_from.v ELSE args.date_from
DateToOf == IF op \in SearchOps THEN args.date_to.v ELSE args.date_to

\* A search or an analysis was given two well-formed dates, date_from
\* after date_to.
DatesInverted ==
    /\ op \in SearchOps \cup AnalyzeOps
    /\ op \in SearchOps => args.date_from.some /\ args.date_to.some
    /\ ParseOK(DateFromOf) /\ ParseOK(DateToOf)
    /\ ToOrdinal(DateFromOf) > ToOrdinal(DateToOf)

\* The call's domain holds both date predicates of the invocation.
DatedQuery(c) ==
    \E f \in {"date_order", "date"} :
        /\ \E i \in 1..Len(c.domain) : c.domain[i] = Pred(f, ">=", DateFromOf)
        /\ \E i \in 1..Len(c.domain) : c.domain[i] = Pred(f, "<=", DateToOf)

\* The tool returned before any store call.
ValidationFailure == outcome.kind = "failure" /\ Len(calls) = 0

\* The success payload counts nothing where the store returned no record.
ZeroWhereEmpty ==
    /\ (op \in SearchOps /\ Len(store.records) = 0) => outcome.result.count = 0
    /\ (op = "analyze_sales_performance" /\ Len(store.sales_data) = 0) =>
         /\ outcome.result.summary.order_count = 0
         /\ outcome.result.summary.total_amount = 0
    /\ (op = "analyze_supplier_performance" /\ Len(store.purchase_data) = 0) =>
         /\ outcome.result.summary.order_count = 0
         /\ outcome.result.summary.supplier_count = 0
         /\ outcome.result.summary.total_amount = 0
    /\ op = "analyze_inventory_turnover" =>
         \A k \in 1..Len(outcome.result.products) :
             Len(store.products[outcome.result.products[k].id].moves) = 0
                 => outcome.result.products[k].cogs = 0
    /\ (op = "analyze_financial_ratios"
          /\ \A x \in {"assets", "liabilities", "equity", "income", "expenses"} :
                 store.ledger[x] = 0) =>
         \A x \in {"total_assets", "total_liabilities", "total_equity",
                   "total_income", "total_expenses", "net_income"} :
             outcome.result.summary[x] = 0

\* analyze_inventory_turnover found no product: its lookup, which carries
\* no date predicate, returned no record.
TurnoverNotFound ==
    /\ op = "analyze_inventory_turnover"
    /\ LookupAnswered
    /\ Len(store.products) = 0

\* C24 as stated: given well-formed dates with date_from after date_to, no
\* search or analysis returns a validation failure; when no store call
\* raises it has issued a query with both the >= date_from and the
\* <= date_to predicate and returns success, with zero counts and totals
\* where the store returned no record.
C24_InvertedDatesSucceed ==
    DatesInverted =>
        /\ ~ValidationFailure
        /\ ~SomeCallRaised =>
             /\ \E i \in 1..Len(calls) : DatedQuery(calls[i])
             /\ outcome.kind = "success"
             /\ ZeroWhereEmpty

\* C24 amended: the same, except that analyze_inventory_turnover returns
\* the failure "No products found with the specified criteria" after its
\* one lookup when that lookup returns no record.
C24_InvertedDatesNotValidated ==
    DatesInverted =>
        /\ ~ValidationFailure
        /\ Len(calls) >= 1
        /\ (op # "analyze_inventory_turnover") => DatedQuery(calls[1])
        /\ (op = "analyze_inventory_turnover") =>
             \A i \in 1..Len(calls) : calls[i].model = "stock.move" => DatedQuery(calls[i])
        /\ (~SomeCallRaised /\ ~TurnoverNotFound) =>
             /\ \E i \in 1..Len(calls) : DatedQuery(calls[i])
             /\ outcome.kind = "success"
             /\ ZeroWhereEmpty
        /\ TurnoverNotFound =>
             /\ outcome.kind = "failure"
             /\ outcome.error = "No products found with the specified criteria"
             /\ Len(calls) = 1

\* analyze_sales_performance from 2024-02-29 to 2024-02-01 against a store
\* that returns no order: success with order_count 0 and total_amount 0.
C24_Witness ==
    /\ op = "analyze_sales_performance"
    /\ DatesInverted
    /\ Len(store.sales_data) = 0
    /\ ~SomeCallRaised
    /\ DatedQuery(calls[1])
    /\ outcome.kind = "success"
    /\ outcome.result.summary.order_count = 0
    /\ outcome.result.summary.total_amount = 0

\* create_inventory_adjustment was answered by the probe of ir.model.
ProbeAnswered ==
    /\ op = "create_inventory_adjustment"
    /\ Len(calls) >= 1
    /\ calls[1].model = "ir.model" /\ calls[1].method = "search_count"
    /\ calls[1].ok

\* The i-th call is of the given model and method.
CallIs(i, model, method) == calls[i].model = model /\ calls[i].method = method

\* The invocation made no call after one that raised.
StopsAtFailure == \A i \in 1..Len(calls) : ~calls[i].ok => i = Len(calls)

\* C25: create_inventory_adjustment, when the store has the stock.inventory
\* model, calls in this order the probe, the stock.inventory create, one
\* stock.inventory.line create per adjustment line in input order, and
\* action_validate once and last, only after every line create succeeded;
\* after a call that fails no call is issued, none undoes what was created,
\* and the outcome is a failure; a malformed date gives a failure with no
\* create and no action call.
C25_InventoryFlowOrder ==
    (ProbeAnswered /\ store.inventory_models > 0) =>
        LET lines == args.adjustment_lines
            n == Len(lines)
        IN  /\ Len(calls) <= n + 3
            /\ \A i \in 1..Len(calls) :
                 /\ i = 2 => CallIs(i, "stock.inventory", "create")
                 /\ (i >= 3 /\ i <= n + 2) =>
                      /\ CallIs(i, "stock.inventory.line", "create")
                      /\ calls[i].vals.product_id = lines[i - 2].product_id
                      /\ calls[i].vals.location_id = lines[i - 2].location_id
                      /\ calls[i].vals.product_qty = lines[i - 2].product_qty
                 /\ i = n + 3 =>
                      /\ CallIs(i, "stock.inventory", "action_validate")
                      /\ \A j \in 1..(i - 1) : calls[j].ok
            /\ StopsAtFailure
            /\ SomeCallRaised => outcome.kind = "failure"
            /\ outcome.kind = "success" => Len(calls) = n + 3
            /\ Malformed(args.date) =>
                 /\ outcome.kind = "failure"
                 /\ Len(calls) = 1
            /\ ~Malformed(args.date) /\ ~SomeCallRaised => outcome.kind = "success"

\* Two lines: the second line create raises after the inventory and the
\* first line were created; action_validate is not issued and the outcome
\* is a failure.
C25_Witness ==
    /\ ProbeAnswered
    /\ store.inventory_models > 0
    /\ Len(args.adjustment_lines) = 2
    /\ Len(calls) = 4
    /\ calls[2].ok /\ calls[3].ok /\ ~calls[4].ok
    /\ CallIs(4, "stock.inventory.line", "create")
    /\ ~Issued("stock.inventory", "action_validate")
    /\ outcome.kind = "failure"

\* C26: create_inventory_adjustment, when the store has no stock.inventory
\* model, issues for each adjustment line in input order one stock.quant
\* search and then exactly one mutation: a write of inventory_quantity on
\* the first quant the search returned, or a stock.quant create when it
\* returned none; action_apply_inventory is issued once, after all lines,
\* with one quant id per line in line order; on success result.quant_ids
\* has one entry per adjustment line.
C26_QuantFlow ==
    (ProbeAnswered /\ store.inventory_models = 0) =>
        LET lines == args.adjustment_lines
            n == Len(lines)
            found(k) == QuantsFound(store.quants, k)
            id(k) == IF found(k) # <<>> THEN found(k)[1] ELSE NewQuantId(k)
        IN  /\ Len(calls) <= 2 * n + 2
            /\ \A i \in 2..Len(calls) :
                 /\ (i <= 2 * n + 1 /\ i % 2 = 0) =>
                      /\ CallIs(i, "stock.quant", "search_read")
                      /\ calls[i].domain
                           = <<Pred("product_id", "=", lines[i \div 2].product_id),
                               Pred("location_id", "=", lines[i \div 2].location_id)>>
                 /\ (i <= 2 * n + 1 /\ i % 2 = 1) =>
                      LET k == (i - 1) \div 2
                      IN  IF found(k) # <<>>
                          THEN /\ CallIs(i, "stock.quant", "write")
                               /\ calls[i].vals.ids = <<found(k)[1]>>
                               /\ calls[i].vals.inventory_quantity = lines[k].product_qty
                          ELSE /\ CallIs(i, "stock.quant", "create")
                               /\ calls[i].vals.product_id = lines[k].product_id
                               /\ calls[i].vals.location_id = lines[k].location_id
                               /\ calls[i].vals.inventory_quantity = lines[k].product_qty
                 /\ i = 2 * n + 2 =>
                      /\ CallIs(i, "stock.quant", "action_apply_inventory")
                      /\ calls[i].vals = [k \in 1..n |-> id(k)]
                      /\ \A j \in 1..(i - 1) : calls[j].ok
            /\ StopsAtFailure
            /\ outcome.kind = "success" =>
                 /\ Len(calls) = 2 * n + 2
                 /\ outcome.result.quant_ids = [k \in 1..n |-> id(k)]
                 /\ Len(outcome.result.quant_ids) = n
            /\ ~SomeCallRaised => outcome.kind = "success"

\* Two lines, a quant found for the first and none for the second: a write
\* on the first quant found, a create, then action_apply_inventory with the
\* two quant ids.
C26_Witness ==
    /\ ProbeAnswered
    /\ store.inventory_models = 0
    /\ Len(args.adjustment_lines) = 2
    /\ store.quants[1] /\ ~store.quants[2]
    /\ Len(calls) = 6
    /\ CallIs(3, "stock.quant", "write")
    /\ calls[3].vals.ids = <<22>>
    /\ CallIs(5, "stock.quant", "create")
    /\ CallIs(6, "stock.quant", "action_apply_inventory")
    /\ calls[6].vals = <<22, 42>>
    /\ outcome.kind = "success"
    /\ outcome.result.quant_ids = <<22, 42>>

\* C27: in search_sales_orders, search_purchase_orders and
\* search_journal_entries the search_count call has the model and the
\* domain of the search_read call before it, limit and offset go to
\* search_read only, and on success result.count is the number of records
\* search_read returned and result.total_count the store's count.
C27_CountOfSameDomain ==
    op \in SearchOps =>
        /\ Len(calls) >= 1 =>
             /\ calls[1].method = "search_read"
             /\ calls[1].vals = [limit |-> args.limit, offset |-> args.offset]
        /\ Len(calls) >= 2 =>
             /\ calls[2].method = "search_count"
             /\ calls[2].model = calls[1].model
             /\ calls[2].domain = calls[1].domain
             /\ calls[2].vals = NoVals
        /\ outcome.kind = "success" =>
             /\ Len(calls) >= 2
             /\ outcome.result.count = Len(store.records)
             /\ outcome.result.total_count = store.total_count

\* A search under four predicates returns 2 of the 7 orders the store
\* counts for them.
C27_Witness ==
    /\ op = "search_sales_orders"
    /\ outcome.kind = "success"
    /\ Len(calls[1].domain) = 4
    /\ calls[2].domain = calls[1].domain
    /\ outcome.result.count = 2
    /\ outcome.result.total_count = 7

ReadOnlyOps == SearchOps \cup AnalyzeOps \cup {"check_product_availability"}

\* C28: the search, check and analyze tools issue only read calls
\* (search_read, search_count, read) on every path, the paths that end in
\* a failure included: never a create, a write or a workflow action.
C28_ReadOnly ==
    op \in ReadOnlyOps =>
        \A i \in 1..Len(calls) : calls[i].method \in {"search_read", "search_count", "read"}

\* analyze_inventory_turnover fails at its sixth call, a read of the
\* fallback, after five calls that were reads as well.
C28_Witness ==
    /\ op = "analyze_inventory_turnover"
    /\ outcome.kind = "failure"
    /\ Len(calls) = 6
    /\ ~calls[6].ok
    /\ calls[6].method = "read"
    /\ \A i \in 1..5 : calls[i].method \in {"search_read", "read"}

\* C29: when create_sales_order, create_purchase_order or
\* create_journal_entry returns {success: false}, no create call of the
\* invocation succeeded on the store: a failure leaves no new order and no
\* new journal entry, whichever store call failed.
C29_FailureCreatesNothing ==
    (op \in OrderCreateOps \cup {"create_journal_entry"} /\ outcome.kind = "failure") =>
        ~\E i \in 1..Len(calls) : calls[i].method = "create" /\ calls[i].ok

\* The store's orders of the supplier of key `key` that have both an
\* effective and a planned date.
DeliveriesOf(key) ==
    {r \in RecordsOf(Column(store.purchase_data, "partner_id"), key) :
        /\ store.purchase_data[r].effective_date.some
        /\ store.purchase_data[r].date_planned.some}

\* The order's effective day is after its planned day.
IsLate(r) ==
    ToOrdinal(store.purchase_data[r].effective_date.day)
        > ToOrdinal(store.purchase_data[r].date_planned.day)

\* C30: for every supplier of analyze_supplier_performance, an order with
\* both dates is counted in on_time_delivery_count when its effective date
\* is not after its planned date and in late_delivery_count when it is,
\* and an order without both dates in neither, so that the two counts add
\* up to at most order_count; on_time_delivery_rate is
\* on_time_delivery_count / (on_time_delivery_count + late_delivery_count)
\* * 100, or 0 when that sum is 0, and lies between 0 and 100.
C30_DeliveryCounts ==
    SuppliersDone =>
        \A k \in 1..Len(outcome.result.suppliers) :
            LET e == outcome.result.suppliers[k]
                on_time == Cardinality({r \in DeliveriesOf(e.id) : ~IsLate(r)})
                late == Cardinality({r \in DeliveriesOf(e.id) : IsLate(r)})
            IN  /\ e.on_time_delivery_count = on_time
                /\ e.late_delivery_count = late
                /\ e.on_time_delivery_count + e.late_delivery_count <= e.order_count
                /\ e.on_time_delivery_rate
                     = IF on_time + late = 0 THEN FloatZero
                       ELSE MulInt(TrueDiv(on_time, on_time + late), 100)
                /\ FloatGeq(e.on_time_delivery_rate, FloatZero)
                /\ FloatGeq(FloatOf(100), e.on_time_delivery_rate)

\* A supplier with one order delivered on the planned day and one delivered
\* two days late: counts 1 and 1, rate 50.
C30_Witness ==
    /\ SuppliersDone
    /\ Len(outcome.result.suppliers) = 1
    /\ outcome.result.suppliers[1].order_count = 2
    /\ outcome.result.suppliers[1].on_time_delivery_count = 1
    /\ outcome.result.suppliers[1].late_delivery_count = 1
    /\ outcome.result.suppliers[1].on_time_delivery_rate = FloatOf(50)
    /\ outcome.result.suppliers[1].avg_delay_days = FloatOf(1)
============================================================================
